---- MODULE Spec2Model ----
(***************************************************************************)
(* A model of turboscribe's fast_engine.py: the resumable batch scans and  *)
(* their report file, the batch transcribers and their transcript files,   *)
(* and the command server with its single current speech model.            *)
(*                                                                         *)
(* Times are integers in milliseconds.  A media path is an integer; the    *)
(* order of the integers stands for the lexicographic order of the paths.  *)
(* There is one scanned directory and one report path.                     *)
(***************************************************************************)
EXTENDS Integers, Sequences, FiniteSets, TLC

\* ------------------------------------------------------------------ bounds
MaxFiles == 2
MaxRuns == 2
MaxSections == 2
MaxLines == 2
MaxSegs == 3
MaxEntries == 3

\* ------------------------------------------------------- program constants
gap_threshold == 180000
\* round(x, 2): the unit blocks are rounded to, 0.01 s
RoundUnit == 10

Files == 1..MaxFiles

VARIABLES
  \* the disk
  media,              \* the media files present under the scanned directory
  report,             \* the content of the report path
  transcripts,        \* the transcript files: <<media file, model tag>> -> sections
  clock,              \* datetime.now(), in ticks: advanced by every report written
  \* the batch process (one invocation of a run_batch_* function)
  pc,                 \* where the process is, or how it ended
  op,                 \* which function runs
  skip_existing,      \* its skip_existing argument
  media_files,        \* find_media_files' result
  existing_results,   \* the prior report indexed by file
  results,            \* the result set being built
  files_with_voice,
  model,              \* the scanner's model: "None" or a loaded model's name
  i,                  \* the loop's position in media_files or voice_files (1-based)
  model_name,         \* the transcribers' model_name argument
  voice_files,        \* run_batch_transcriber: the report's entries with blocks
  j,                  \* run_batch_transcriber: the position in the entry's blocks
  errors,             \* run_batch_transcribe_dir: its error count
  errlog,             \* the [ERROR] lines the per-file handlers printed
  \* what the run did, kept to state the properties
  prior,              \* the content of the report path when the run started
  scanned,            \* the backend calls of this run, in order: [file, outcome]
  completedAtKill,    \* files scanned without error by a run that was then interrupted
  \* the command server (run_server)
  spc,                \* "off", "ready" (at readline) or "ended"
  scanner_model,      \* the instance loaded at start-up (0: none)
  current_model,      \* the instance commands run on (0: none)
  current_model_name, \* its key
  cmd,                \* the line the last iteration read
  out,                \* the JSON lines and [ERROR] lines that iteration printed
  constructed,        \* the WhisperModel(...) calls of that iteration
  prev_model,         \* current_model and its key before that iteration
  \* the server's standard input and output, as the driving process sees them
  stdin_len,          \* the number of lines the driver has written
  stdin_closed,       \* the driver has closed the pipe
  stdin_pos,          \* the number of lines readline has returned
  line,               \* the index of the line being handled (0: none)
  stdout,             \* the answers written: [line, out], in order
  \* a function of the program applied on its own
  fn,                 \* its name ("none": no function is under study)
  arg,                \* its arguments
  ret,                \* what it returned
  \* the module globals of timestamp_engine.py and the calls made so far
  vlm_model,          \* _vlm_model ("None": not set)
  vlm_processor,      \* _vlm_processor ("None": not set)
  vlm_calls           \* the calls of _load_vlm: caller, outcome, returned

diskVars == <<media, report, transcripts, clock>>
runVars == <<pc, op, skip_existing, media_files, existing_results, results,
             files_with_voice, model, i, model_name, voice_files, j, errors,
             errlog>>
histVars == <<prior, scanned, completedAtKill>>
scanLocals == <<op, skip_existing, media_files, existing_results, model>>
transLocals == <<model_name, voice_files, j, errors>>
modelVars == <<scanner_model, current_model, current_model_name>>
vlmVars == <<vlm_model, vlm_processor, vlm_calls>>
fnVars == <<fn, arg, ret, vlm_model, vlm_processor, vlm_calls>>
pipeVars == <<stdin_len, stdin_closed, stdin_pos, line, stdout>>
srvVars == <<spc, scanner_model, current_model, current_model_name, cmd, out,
             constructed, prev_model, stdin_len, stdin_closed, stdin_pos, line,
             stdout>>
vars == <<media, report, transcripts, clock, pc, op, skip_existing, media_files,
          existing_results, results, files_with_voice, model, i, model_name,
          voice_files, j, errors, errlog, prior, scanned, completedAtKill,
          spc, scanner_model, current_model, current_model_name, cmd, out,
          constructed, prev_model, stdin_len, stdin_closed, stdin_pos, line,
          stdout, fn, arg, ret, vlm_model, vlm_processor, vlm_calls>>

\* ----------------------------------------------------------------- helpers
Range(s) == {s[k] : k \in 1..Len(s)}

Min(S) == CHOOSE x \in S : \A y \in S : x <= y

RECURSIVE SortedSeq(_)
\* list.sort() of a set of distinct paths
SortedSeq(S) == IF S = {} THEN <<>> ELSE <<Min(S)>> \o SortedSeq(S \ {Min(S)})

\* round(x, 2) of a time in seconds: to the nearest 10 ms, ties to even
Round2(t) ==
  LET q == t \div 10
      r == t % 10
  IN  IF r < 5 THEN q * 10
      ELSE IF r > 5 THEN (q + 1) * 10
      ELSE IF q % 2 = 0 THEN q * 10 ELSE (q + 1) * 10

\* round(x, 1) of a time in seconds: to the nearest 100 ms, ties to even
Round1(t) ==
  LET q == t \div 100
      r == t % 100
  IN  IF r < 50 THEN q * 100
      ELSE IF r > 50 THEN (q + 1) * 100
      ELSE IF q % 2 = 0 THEN q * 100 ELSE (q + 1) * 100

\* ------------------------------------------------------- SegmentClusterer
\* a loop that closes a block at the end of the segment that opens the next
RECURSIVE ClusterLoop_CloseAtCurrent(_, _, _, _, _, _)
ClusterLoop_CloseAtCurrent(segments, gap, k, cs, le, blocks) ==
  IF k > Len(segments)
  THEN IF cs # -1
       THEN Append(blocks, [start |-> Round2(cs), end |-> Round2(le)])
       ELSE blocks
  ELSE LET seg == segments[k]
           cs1 == IF cs = -1 THEN seg.start ELSE cs
           split == le # -1 /\ (seg.start - le) > gap
       IN  ClusterLoop_CloseAtCurrent(segments, gap, k + 1,
                       IF split THEN seg.start ELSE cs1,
                       seg.end,
                       IF split
                       THEN Append(blocks, [start |-> Round2(cs1), end |-> Round2(seg.end)])
                       ELSE blocks)

\* a loop that also splits at a gap equal to the threshold
RECURSIVE ClusterLoop_Inclusive(_, _, _, _, _, _)
ClusterLoop_Inclusive(segments, gap, k, cs, le, blocks) ==
  IF k > Len(segments)
  THEN IF cs # -1
       THEN Append(blocks, [start |-> Round2(cs), end |-> Round2(le)])
       ELSE blocks
  ELSE LET seg == segments[k]
           cs1 == IF cs = -1 THEN seg.start ELSE cs
           split == le # -1 /\ (seg.start - le) >= gap
       IN  ClusterLoop_Inclusive(segments, gap, k + 1,
                       IF split THEN seg.start ELSE cs1,
                       seg.end,
                       IF split
                       THEN Append(blocks, [start |-> Round2(cs1), end |-> Round2(le)])
                       ELSE blocks)

\* The loop of cluster_segments over segments[k..]; cs = current_start,
\* le = last_end (-1: none yet), as in the source.
RECURSIVE ClusterLoop(_, _, _, _, _, _)
ClusterLoop(segments, gap, k, cs, le, blocks) ==
  IF k > Len(segments)
  THEN IF cs # -1
       THEN Append(blocks, [start |-> Round2(cs), end |-> Round2(le)])
       ELSE blocks
  ELSE LET seg == segments[k]
           cs1 == IF cs = -1 THEN seg.start ELSE cs
           split == le # -1 /\ (seg.start - le) > gap
       IN  ClusterLoop(segments, gap, k + 1,
                       IF split THEN seg.start ELSE cs1,
                       seg.end,
                       IF split
                       THEN Append(blocks, [start |-> Round2(cs1), end |-> Round2(le)])
                       ELSE blocks)

\* a cluster_segments that never appends the block still open after the loop
cluster_segments_DropsOpenBlock(segments, gap) ==
  LET b == ClusterLoop(segments, gap, 1, -1, -1, <<>>)
  IN  [blocks |-> SubSeq(b, 1, Len(b) - 1),
       segment_count |-> Len(segments)]

\* blocks, segment_count = cluster_segments(segments, gap_threshold)
cluster_segments(segments, gap) ==
  [blocks |-> ClusterLoop(segments, gap, 1, -1, -1, <<>>),
   segment_count |-> Len(segments)]

\* ------------------------------------------------------------ the backends
\* What a scan backend call returns for one file: an exception, or the
\* segments it found and the file's duration.
Seg(a, b) == [start |-> a, end |-> b]

Voiced == <<Seg(0, 5000), Seg(10000, 15000), Seg(400000, 410000)>>

ScanOutcomes ==
  { [raised |-> TRUE, msg |-> "E"],
    [raised |-> FALSE, segments |-> <<>>, duration |-> 30000],
    [raised |-> FALSE, segments |-> Voiced, duration |-> 420000] }

RECURSIVE SumDur(_, _)
SumDur(ts, k) ==
  IF k > Len(ts) THEN 0 ELSE (ts[k].end - ts[k].start) + SumDur(ts, k + 1)

\* --------------------------------------------------------------- ScanReport
NoFile == [kind |-> "none"]
Partial == [kind |-> "partial"]

IsReport(r) == r.kind = "json"

\* existing_results after the load loop: the last entry of each file
LoadExisting(r) ==
  LET res == IF IsReport(r) THEN r.results ELSE <<>>
      fs == {res[k].file : k \in 1..Len(res)}
  IN  [f \in fs |->
         res[CHOOSE k \in 1..Len(res) :
               /\ res[k].file = f
               /\ \A m \in (k + 1)..Len(res) : res[m].file # f]]

\* a find_media_files that returns the files in the reverse of sorted order
find_media_files_Unsorted(listing, walk_ok) ==
  IF walk_ok
  THEN [k \in 1..Cardinality(listing) |->
          SortedSeq(listing)[Cardinality(listing) + 1 - k]]
  ELSE <<>>

\* find_media_files: the matching files, sorted; nothing when the walk or
\* its debug log raises
find_media_files(listing, walk_ok) ==
  IF walk_ok THEN SortedSeq(listing) ELSE <<>>

\* ShouldSkip without the error test: any prior entry is copied
ShouldSkip_AnyEntry(skip, file, existing) ==
  /\ skip
  /\ file \in DOMAIN existing

\* ShouldSkip with the error test inverted
ShouldSkip_ErrorOnly(skip, file, existing) ==
  /\ skip
  /\ file \in DOMAIN existing
  /\ "error" \in DOMAIN existing[file]

\* the test that copies a prior entry instead of scanning the file
ShouldSkip(skip, file, existing) ==
  /\ skip
  /\ file \in DOMAIN existing
  /\ "error" \notin DOMAIN existing[file]

\* a skipped entry never counted in files_with_voice
PrevHasVoice_Never(prev) == FALSE

\* prev.get("segments_found", 0) > 0
PrevHasVoice(prev) ==
  IF "segments_found" \in DOMAIN prev THEN prev.segments_found > 0 ELSE FALSE

\* an error entry that also carries an empty blocks list
ErrorEntry_WithBlocks(file, outcome) ==
  [file |-> file, error |-> outcome.msg, blocks |-> <<>>]

\* the entry both scans append in their except clause
ErrorEntry(file, outcome) == [file |-> file, error |-> outcome.msg]

\* the entry run_batch_scanner builds from one model.transcribe call
ScannerEntry(file, outcome) ==
  IF outcome.raised THEN ErrorEntry(file, outcome)
  ELSE LET c == cluster_segments(outcome.segments, gap_threshold)
       IN  IF c.blocks # <<>>
           THEN [file |-> file,
                 duration_sec |-> Round1(outcome.duration),
                 segments_found |-> c.segment_count,
                 blocks |-> c.blocks,
                 transcribe_cmds |->
                   [k \in 1..Len(c.blocks) |->
                      <<"transcribe", file, c.blocks[k].start, c.blocks[k].end>>]]
           ELSE [file |-> file, duration_sec |-> 0, segments_found |-> 0,
                 blocks |-> <<>>]

\* the entry run_batch_vad_scan builds from one run_vad_scan call
VadEntry(file, outcome) ==
  IF outcome.raised THEN ErrorEntry(file, outcome)
  ELSE LET ts == outcome.segments
       IN  IF ts # <<>>
           THEN [file |-> file,
                 duration_sec |-> Round1(outcome.duration),
                 segments_found |-> Len(ts),
                 speech_duration_sec |-> Round1(SumDur(ts, 1)),
                 blocks |-> [k \in 1..Len(ts) |->
                               [start |-> Round2(ts[k].start),
                                end |-> Round2(ts[k].end)]],
                 transcribe_cmds |-> <<>>]
           ELSE [file |-> file,
                 duration_sec |-> Round1(outcome.duration),
                 segments_found |-> 0,
                 speech_duration_sec |-> 0,
                 blocks |-> <<>>]

ScanEntry(o, file, outcome) ==
  IF o = "scan" THEN ScannerEntry(file, outcome) ELSE VadEntry(file, outcome)

\* a count that takes in every file whose scan returned, silent or not
FreshHasVoice_AnyReturn(o, outcome) == ~outcome.raised

\* whether the freshly scanned file counts in files_with_voice
FreshHasVoice(o, outcome) ==
  /\ ~outcome.raised
  /\ IF o = "scan"
     THEN cluster_segments(outcome.segments, gap_threshold).blocks # <<>>
     ELSE outcome.segments # <<>>

\* a report that also keeps the prior entries of files not in res
BuildReport_Union(o, now, total, fwv, res, mdl) ==
  LET old == IF IsReport(prior) THEN prior.results ELSE <<>>
      kept == SelectSeq(old, LAMBDA e : \A k \in 1..Len(res) : res[k].file # e.file)
  IN  [kind |-> "json", date |-> now, directory |-> "dir",
       total_files |-> total, files_with_voice |-> fwv, results |-> res \o kept,
       scan_model |-> IF o = "scan" THEN "custom" ELSE "silero-vad"]

\* the report object the two scans serialize
BuildReport(o, now, total, fwv, res, mdl) ==
  IF o = "scan"
  THEN [kind |-> "json", date |-> now, directory |-> "dir",
        total_files |-> total, files_with_voice |-> fwv, results |-> res,
        scan_model |-> IF mdl = "None" THEN "tiny.en" ELSE "custom"]
  ELSE [kind |-> "json", date |-> now, directory |-> "dir",
        total_files |-> total, files_with_voice |-> fwv, results |-> res,
        scan_model |-> "silero-vad", vad_threshold |-> 50]

\* one loop iteration that copies the prior entry prev; acc is the pair
\* (results, files_with_voice)
SkipStep(acc, prev) ==
  [results |-> Append(acc.results, prev),
   fwv |-> acc.fwv + (IF PrevHasVoice(prev) THEN 1 ELSE 0)]

\* a loop iteration that leaves a file whose scan raised out of the results
ScanStep_DropsErrors(o, acc, file, outcome) ==
  IF outcome.raised THEN acc
  ELSE [results |-> Append(acc.results, ScanEntry(o, file, outcome)),
        fwv |-> acc.fwv + (IF FreshHasVoice(o, outcome) THEN 1 ELSE 0)]

\* one loop iteration that scans file with the given backend outcome
ScanStep(o, acc, file, outcome) ==
  [results |-> Append(acc.results, ScanEntry(o, file, outcome)),
   fwv |-> acc.fwv + (IF FreshHasVoice(o, outcome) THEN 1 ELSE 0)]

\* the whole loop over mf[k..]; oracle gives each file's backend outcome
RECURSIVE ScanLoop(_, _, _, _, _, _, _)
ScanLoop(o, skip, mf, existing, oracle, k, acc) ==
  IF k > Len(mf) THEN acc
  ELSE ScanLoop(o, skip, mf, existing, oracle, k + 1,
                IF ShouldSkip(skip, mf[k], existing)
                THEN SkipStep(acc, existing[mf[k]])
                ELSE ScanStep(o, acc, mf[k], oracle[mf[k]]))

NoResults == [f \in {} |-> NoFile]

\* the report a whole scan writes: discovery, load of the prior report rep,
\* the loop and the save
ScanRunReport(o, skip, listing, walk_ok, rep, oracle, now, mdl) ==
  LET mf == find_media_files(listing, walk_ok)
      existing == IF skip /\ rep.kind # "none" THEN LoadExisting(rep) ELSE NoResults
      acc == ScanLoop(o, skip, mf, existing, oracle, 1, [results |-> <<>>, fwv |-> 0])
  IN  BuildReport(o, now, Len(mf), acc.fwv, acc.results, mdl)

\* ------------------------------------------------------- transcript files
ModelNames == {"tiny.en", "large-v1", "large-v3"}

\* model_name.replace(".", "_").replace("-", "_")
safe_model(name) ==
  CASE name = "tiny.en" -> "tiny_en"
    [] name = "large-v1" -> "large_v1"
    [] name = "large-v3" -> "large_v3"

NoTranscripts == [k \in {} |-> <<>>]

\* os.path.exists(out_path)
Exists(ts, key) == key \in DOMAIN ts

\* the file ts[key] after open(mode): "a" keeps the content, "w" drops it
WriteSection(ts, key, mode, section) ==
  [k \in DOMAIN ts \cup {key} |->
     IF k = key
     THEN (IF mode = "a" /\ Exists(ts, key) THEN Append(ts[key], section)
           ELSE <<section>>)
     ELSE ts[k]]

\* What a transcription backend call returns: an exception, or the lines.
TransOutcomes ==
  { [raised |-> TRUE, msg |-> "E"],
    [raised |-> FALSE, lines |-> <<>>, duration |-> 30000],
    [raised |-> FALSE, lines |-> <<"text">>, duration |-> 420000] }

\* a run_transcriber that opens its target with "w" whether it exists or not
run_transcriber_Overwrites(ts, file, start, end, mname, skip, outcome) ==
  LET out_path == <<file, safe_model(mname)>>
  IN  IF skip /\ Exists(ts, out_path) THEN ts
      ELSE WriteSection(ts, out_path, "w",
                        [kind |-> "window", start |-> Round1(start),
                         end |-> Round1(end), source |-> file,
                         lines |-> outcome.lines])

\* run_transcriber after model.transcribe returned outcome: the transcript
\* files it leaves.  The skip test comes after the transcription.
run_transcriber(ts, file, start, end, mname, skip, outcome) ==
  LET out_path == <<file, safe_model(mname)>>
  IN  IF skip /\ Exists(ts, out_path) THEN ts
      ELSE WriteSection(ts, out_path,
                        IF Exists(ts, out_path) THEN "a" ELSE "w",
                        [kind |-> "window", start |-> Round1(start),
                         end |-> Round1(end), source |-> file,
                         lines |-> outcome.lines])

\* a loop whose per-file handler is missing: the exception leaves the loop
OnFileException_Abort(loop_pc, end_pc, last) == "crashed_file"

\* the pc after the except clause of a loop iteration: the loop goes on
OnFileException(loop_pc, end_pc, last) == IF last THEN end_pc ELSE loop_pc

\* ------------------------------------------- the batch scans, step by step
\* no process is running
Stopped == pc \in {"idle", "killed"}

\* the locals of a process that is not running
ClearRun ==
  /\ op' = "none"
  /\ skip_existing' = FALSE
  /\ media_files' = <<>>
  /\ existing_results' = NoResults
  /\ results' = <<>>
  /\ files_with_voice' = 0
  /\ model' = "None"
  /\ i' = 1
  /\ model_name' = "None"
  /\ voice_files' = <<>>
  /\ j' = 1
  /\ errors' = 0
  /\ errlog' = <<>>

\* run_batch_scanner / run_batch_vad_scan up to the loop: discovery, the
\* scanner's model, and the prior report loaded when skip_existing is set.
\* A report that does not parse leaves existing_results empty.  listing is
\* the directory as the walk finds it: files come and go between two runs.
StartScan(o, skip, listing, model_arg, walk_ok, load_ok) ==
  /\ Stopped
  /\ clock < MaxRuns
  /\ media' = listing
  /\ op' = o
  /\ skip_existing' = skip
  /\ media_files' = find_media_files(listing, walk_ok)
  /\ prior' = report
  /\ scanned' = <<>>
  /\ completedAtKill' = IF pc = "killed" THEN completedAtKill ELSE {}
  /\ results' = <<>>
  /\ files_with_voice' = 0
  /\ i' = 1
  /\ errlog' = <<>>
  /\ UNCHANGED <<report, transcripts, clock>>
  /\ UNCHANGED transLocals
  /\ IF o = "scan" /\ model_arg = "None" /\ ~load_ok
     THEN \* WhisperModel("tiny.en") raises: the function ends there
          /\ pc' = "crashed_load"
          /\ model' = "None"
          /\ existing_results' = NoResults
     ELSE /\ model' = IF o = "scan"
                      THEN (IF model_arg = "None" THEN "tiny.en" ELSE model_arg)
                      ELSE "None"
          /\ existing_results' = IF skip /\ report.kind # "none"
                                 THEN LoadExisting(report)
                                 ELSE NoResults
          /\ pc' = IF find_media_files(listing, walk_ok) = <<>> THEN "save" ELSE "loop"
  /\ UNCHANGED srvVars
  /\ UNCHANGED fnVars

\* one iteration of the loop that copies a prior entry
SkipFile ==
  /\ pc = "loop"
  /\ ShouldSkip(skip_existing, media_files[i], existing_results)
  /\ LET acc == SkipStep([results |-> results, fwv |-> files_with_voice],
                         existing_results[media_files[i]])
     IN  /\ results' = acc.results
         /\ files_with_voice' = acc.fwv
  /\ i' = i + 1
  /\ pc' = IF i + 1 > Len(media_files) THEN "save" ELSE "loop"
  /\ UNCHANGED scanLocals
  /\ UNCHANGED transLocals
  /\ UNCHANGED errlog
  /\ UNCHANGED diskVars
  /\ UNCHANGED histVars
  /\ UNCHANGED srvVars
  /\ UNCHANGED fnVars

\* one iteration of the loop that calls the backend; an exception becomes
\* the file's error entry
ScanFile(outcome) ==
  /\ pc = "loop"
  /\ ~ShouldSkip(skip_existing, media_files[i], existing_results)
  /\ LET acc == ScanStep(op, [results |-> results, fwv |-> files_with_voice],
                         media_files[i], outcome)
     IN  /\ results' = acc.results
         /\ files_with_voice' = acc.fwv
  /\ scanned' = Append(scanned, [file |-> media_files[i], outcome |-> outcome])
  /\ errlog' = IF outcome.raised THEN Append(errlog, outcome.msg) ELSE errlog
  /\ i' = i + 1
  /\ pc' = IF outcome.raised
           THEN OnFileException("loop", "save", i + 1 > Len(media_files))
           ELSE IF i + 1 > Len(media_files) THEN "save" ELSE "loop"
  /\ UNCHANGED scanLocals
  /\ UNCHANGED transLocals
  /\ UNCHANGED diskVars
  /\ UNCHANGED <<prior, completedAtKill>>
  /\ UNCHANGED srvVars
  /\ UNCHANGED fnVars

\* os.makedirs and open(report_path, "w"): the path now holds an empty file;
\* when either raises, the function ends with the path untouched
OpenReport(open_ok) ==
  /\ pc = "save"
  /\ IF open_ok
     THEN /\ report' = Partial
          /\ pc' = "dump"
     ELSE /\ report' = report
          /\ pc' = "crashed_save"
  /\ UNCHANGED <<media, transcripts, clock>>
  /\ UNCHANGED scanLocals
  /\ UNCHANGED transLocals
  /\ UNCHANGED <<results, files_with_voice, i, errlog>>
  /\ UNCHANGED histVars
  /\ UNCHANGED srvVars
  /\ UNCHANGED fnVars

\* json.dump and the close of the file: the path holds the whole report
DumpReport ==
  /\ pc = "dump"
  /\ report' = BuildReport(op, clock, Len(media_files), files_with_voice,
                           results, model)
  /\ clock' = clock + 1
  /\ pc' = "done"
  /\ UNCHANGED <<media, transcripts>>
  /\ UNCHANGED scanLocals
  /\ UNCHANGED transLocals
  /\ UNCHANGED <<results, files_with_voice, i, errlog>>
  /\ UNCHANGED histVars
  /\ UNCHANGED srvVars
  /\ UNCHANGED fnVars

\* the process is terminated: its memory is gone, the disk stays as it is
Kill ==
  /\ pc \in {"loop", "save", "dump"}
  /\ pc' = "killed"
  /\ completedAtKill' = {scanned[k].file : k \in {m \in 1..Len(scanned) :
                                                   ~scanned[m].outcome.raised}}
  /\ ClearRun
  /\ UNCHANGED diskVars
  /\ UNCHANGED <<prior, scanned>>
  /\ UNCHANGED srvVars
  /\ UNCHANGED fnVars

\* the function has returned or raised: the process ends
Exit ==
  /\ pc \in {"done", "crashed_load", "crashed_save"}
  /\ pc' = "idle"
  /\ ClearRun
  /\ prior' = NoFile
  /\ scanned' = <<>>
  /\ completedAtKill' = {}
  /\ UNCHANGED diskVars
  /\ UNCHANGED srvVars
  /\ UNCHANGED fnVars

\* the locals and the history before any process has run
InitRun ==
  /\ pc = "idle"
  /\ op = "none"
  /\ skip_existing = FALSE
  /\ media_files = <<>>
  /\ existing_results = NoResults
  /\ results = <<>>
  /\ files_with_voice = 0
  /\ model = "None"
  /\ i = 1
  /\ model_name = "None"
  /\ voice_files = <<>>
  /\ j = 1
  /\ errors = 0
  /\ errlog = <<>>
  /\ prior = NoFile
  /\ scanned = <<>>
  /\ completedAtKill = {}

\* no function is applied on its own
NoCall == [kind |-> "none"]

\* _vlm_model = None; _vlm_processor = None
VlmUnloaded ==
  /\ vlm_model = "None"
  /\ vlm_processor = "None"
  /\ vlm_calls = <<>>

FnIdle ==
  /\ fn = "none"
  /\ arg = NoCall
  /\ ret = NoCall
  /\ VlmUnloaded

\* nothing has been written to the server's input
PipeIdle ==
  /\ stdin_len = 0
  /\ stdin_closed = FALSE
  /\ stdin_pos = 0
  /\ line = 0
  /\ stdout = <<>>

\* run_server has not been entered
ServerOff ==
  /\ spc = "off"
  /\ scanner_model = 0
  /\ current_model = 0
  /\ current_model_name = "None"
  /\ cmd = [kind |-> "none"]
  /\ out = <<>>
  /\ constructed = <<>>
  /\ prev_model = [id |-> 0, name |-> "None"]

Init ==
  /\ media = {}
  /\ report = NoFile
  /\ transcripts = NoTranscripts
  /\ clock = 0
  /\ InitRun
  /\ ServerOff
  /\ PipeIdle
  /\ FnIdle

\* which of the scanner's three model cases a start takes: a model passed
\* by the caller, or its own tiny.en load, which succeeds or raises
ScanStarts ==
  {[model_arg |-> "tiny.en", load_ok |-> TRUE],
   [model_arg |-> "None", load_ok |-> TRUE],
   [model_arg |-> "None", load_ok |-> FALSE]}

NextScan ==
  \/ \E o \in {"scan", "vad_scan"}, skip \in BOOLEAN, listing \in SUBSET Files,
        st \in ScanStarts, walk_ok \in BOOLEAN :
       StartScan(o, skip, listing, st.model_arg, walk_ok, st.load_ok)
  \/ SkipFile
  \/ \E outcome \in ScanOutcomes : ScanFile(outcome)
  \/ \E open_ok \in BOOLEAN : OpenReport(open_ok)
  \/ DumpReport
  \/ Exit

NextResume ==
  \/ NextScan
  \/ Kill

\* the batch scans, run to their end every time
SpecScan == Init /\ [][NextScan]_vars

\* the batch scans, with the process terminated at any point
SpecResume == Init /\ [][NextResume]_vars

\* ------------------------------------------------- the batch transcribers
\* r.get("blocks") and no error: the entries run_batch_transcriber keeps
IsVoiceEntry(r) ==
  /\ "error" \notin DOMAIN r
  /\ "blocks" \in DOMAIN r
  /\ r.blocks # <<>>

\* a run_batch_transcriber that loads its model before it looks for the
\* report, and treats a missing report as one without results
StartTranscriber_LoadsFirst(skip, mname, load_ok) ==
  /\ Stopped
  /\ op' = "batch_transcribe"
  /\ skip_existing' = skip
  /\ model_name' = mname
  /\ prior' = report
  /\ scanned' = <<>>
  /\ completedAtKill' = {}
  /\ errlog' = <<>>
  /\ i' = 1
  /\ j' = 1
  /\ UNCHANGED diskVars
  /\ UNCHANGED <<media_files, existing_results, results, files_with_voice, errors>>
  /\ IF report.kind = "none"
     THEN /\ pc' = IF load_ok THEN "done" ELSE "crashed_load"
          /\ voice_files' = <<>>
          /\ model' = IF load_ok THEN mname ELSE "None"
     ELSE IF ~IsReport(report)
     THEN \* json.load raises
          /\ pc' = "crashed_report"
          /\ voice_files' = <<>>
          /\ model' = "None"
     ELSE /\ voice_files' = SelectSeq(report.results, IsVoiceEntry)
          /\ IF load_ok
             THEN /\ model' = mname
                  /\ pc' = IF SelectSeq(report.results, IsVoiceEntry) = <<>>
                           THEN "done" ELSE "tloop"
             ELSE /\ model' = "None"
                  /\ pc' = "crashed_load"
  /\ UNCHANGED srvVars
  /\ UNCHANGED fnVars

\* run_batch_transcriber up to its loop: the report must exist and parse,
\* then the model is loaded
StartTranscriber(skip, mname, load_ok) ==
  /\ Stopped
  /\ op' = "batch_transcribe"
  /\ skip_existing' = skip
  /\ model_name' = mname
  /\ prior' = report
  /\ scanned' = <<>>
  /\ completedAtKill' = {}
  /\ errlog' = <<>>
  /\ i' = 1
  /\ j' = 1
  /\ UNCHANGED diskVars
  /\ UNCHANGED <<media_files, existing_results, results, files_with_voice, errors>>
  /\ IF report.kind = "none"
     THEN \* exit(1)
          /\ pc' = "exit1"
          /\ voice_files' = <<>>
          /\ model' = "None"
     ELSE IF ~IsReport(report)
     THEN \* json.load raises
          /\ pc' = "crashed_report"
          /\ voice_files' = <<>>
          /\ model' = "None"
     ELSE /\ voice_files' = SelectSeq(report.results, IsVoiceEntry)
          /\ IF load_ok
             THEN /\ model' = mname
                  /\ pc' = IF SelectSeq(report.results, IsVoiceEntry) = <<>>
                           THEN "done" ELSE "tloop"
             ELSE /\ model' = "None"
                  /\ pc' = "crashed_load"
  /\ UNCHANGED srvVars
  /\ UNCHANGED fnVars

\* one block of one entry: run_transcriber inside the try
TranscribeBlock(outcome) ==
  /\ pc = "tloop"
  /\ LET entry == voice_files[i]
         b == entry.blocks[j]
         last_block == j = Len(entry.blocks)
         last == last_block /\ i = Len(voice_files)
     IN  /\ transcripts' =
               IF outcome.raised THEN transcripts
               ELSE run_transcriber(transcripts, entry.file, b.start, b.end,
                                    model_name, skip_existing, outcome)
         /\ scanned' = Append(scanned, [file |-> entry.file, block |-> j,
                                        outcome |-> outcome])
         /\ errlog' = IF outcome.raised THEN Append(errlog, outcome.msg) ELSE errlog
         /\ j' = IF last_block THEN 1 ELSE j + 1
         /\ i' = IF last_block THEN i + 1 ELSE i
         /\ pc' = IF outcome.raised
                  THEN OnFileException("tloop", "done", last)
                  ELSE IF last THEN "done" ELSE "tloop"
  /\ UNCHANGED <<media, report, clock>>
  /\ UNCHANGED scanLocals
  /\ UNCHANGED <<results, files_with_voice, model_name, voice_files, errors>>
  /\ UNCHANGED <<prior, completedAtKill>>
  /\ UNCHANGED srvVars
  /\ UNCHANGED fnVars

\* run_batch_transcribe_dir up to its loop
StartTranscribeDir(skip, listing, mname, walk_ok, load_ok) ==
  /\ Stopped
  /\ media' = listing
  /\ op' = "batch_transcribe_dir"
  /\ skip_existing' = skip
  /\ model_name' = mname
  /\ media_files' = find_media_files(listing, walk_ok)
  /\ prior' = report
  /\ scanned' = <<>>
  /\ completedAtKill' = {}
  /\ errlog' = <<>>
  /\ errors' = 0
  /\ i' = 1
  /\ UNCHANGED <<report, transcripts, clock>>
  /\ UNCHANGED <<existing_results, results, files_with_voice, voice_files, j>>
  /\ IF load_ok
     THEN /\ model' = mname
          /\ pc' = IF find_media_files(listing, walk_ok) = <<>> THEN "done" ELSE "dloop"
     ELSE /\ model' = "None"
          /\ pc' = "crashed_load"
  /\ UNCHANGED srvVars
  /\ UNCHANGED fnVars

\* the transcript of file under the run's model exists and skip_existing is set
DirSkips(skip, ts, file, mname) == skip /\ Exists(ts, <<file, safe_model(mname)>>)

\* one file that is skipped
SkipTranscribed ==
  /\ pc = "dloop"
  /\ DirSkips(skip_existing, transcripts, media_files[i], model_name)
  /\ i' = i + 1
  /\ pc' = IF i + 1 > Len(media_files) THEN "done" ELSE "dloop"
  /\ UNCHANGED diskVars
  /\ UNCHANGED scanLocals
  /\ UNCHANGED transLocals
  /\ UNCHANGED <<results, files_with_voice, errlog>>
  /\ UNCHANGED histVars
  /\ UNCHANGED srvVars
  /\ UNCHANGED fnVars

\* one file that is transcribed whole: its transcript is rewritten when the
\* backend returned lines
TranscribeDirFile(outcome) ==
  /\ pc = "dloop"
  /\ ~DirSkips(skip_existing, transcripts, media_files[i], model_name)
  /\ LET file == media_files[i]
         last == i + 1 > Len(media_files)
     IN  /\ transcripts' =
               IF outcome.raised \/ outcome.lines = <<>> THEN transcripts
               ELSE WriteSection(transcripts, <<file, safe_model(model_name)>>, "w",
                                 [kind |-> "full", duration |-> Round1(outcome.duration),
                                  source |-> file, lines |-> outcome.lines])
         /\ scanned' = Append(scanned, [file |-> file, outcome |-> outcome])
         /\ errors' = IF outcome.raised THEN errors + 1 ELSE errors
         /\ errlog' = IF outcome.raised THEN Append(errlog, outcome.msg) ELSE errlog
         /\ pc' = IF outcome.raised
                  THEN OnFileException("dloop", "done", last)
                  ELSE IF last THEN "done" ELSE "dloop"
  /\ i' = i + 1
  /\ UNCHANGED <<media, report, clock>>
  /\ UNCHANGED scanLocals
  /\ UNCHANGED <<results, files_with_voice, model_name, voice_files, j>>
  /\ UNCHANGED <<prior, completedAtKill>>
  /\ UNCHANGED srvVars
  /\ UNCHANGED fnVars

\* the models the batch transcribers are started with (--model)
BatchModelNames == {"large-v1", "large-v3"}

\* the reports an earlier scan of the directory has left
EarlierReports ==
  {ScanRunReport(o, FALSE, listing, TRUE, NoFile, oracle, 0, "tiny.en") :
     o \in {"scan", "vad_scan"}, listing \in SUBSET Files,
     oracle \in [Files -> ScanOutcomes]}

\* the transcripts an earlier windowed transcription has left
EarlierTranscripts ==
  {NoTranscripts,
   run_transcriber(NoTranscripts, 1, 0, 15000, "large-v1", FALSE,
                   [raised |-> FALSE, lines |-> <<"text">>, duration |-> 420000])}

\* one invocation of a batch operation on the disk earlier invocations left
InitBatch ==
  /\ media = {}
  /\ report \in {NoFile, Partial} \cup EarlierReports
  /\ transcripts \in EarlierTranscripts
  /\ clock = 1
  /\ InitRun
  /\ ServerOff
  /\ PipeIdle
  /\ FnIdle

NextBatch ==
  \/ \E o \in {"scan", "vad_scan"}, skip \in BOOLEAN, listing \in SUBSET Files,
        st \in ScanStarts, walk_ok \in BOOLEAN :
       StartScan(o, skip, listing, st.model_arg, walk_ok, st.load_ok)
  \/ SkipFile
  \/ \E outcome \in ScanOutcomes : ScanFile(outcome)
  \/ \E open_ok \in BOOLEAN : OpenReport(open_ok)
  \/ DumpReport
  \/ \E skip \in BOOLEAN, mname \in BatchModelNames, load_ok \in BOOLEAN :
       StartTranscriber(skip, mname, load_ok)
  \/ \E outcome \in TransOutcomes : TranscribeBlock(outcome)
  \/ \E skip \in BOOLEAN, listing \in SUBSET Files, mname \in BatchModelNames,
        walk_ok \in BOOLEAN, load_ok \in BOOLEAN :
       StartTranscribeDir(skip, listing, mname, walk_ok, load_ok)
  \/ SkipTranscribed
  \/ \E outcome \in TransOutcomes : TranscribeDirFile(outcome)

\* one invocation of any of the four batch operations
SpecBatch == InitBatch /\ [][NextBatch]_vars

\* ------------------------------------------------------ the command server
\* What an iteration prints is kept as its JSON lines and its "[ERROR] ..."
\* text lines, in order; progress lines ("[SERVER] ...", "[BATCH] ...") and
\* tagged payload lines ("[SEARCH_RESULTS] ...") are left out, but for the
\* "[SERVER] Init failed" line of a start that failed.
Complete(action) == [json |-> TRUE, status |-> "complete", action |-> action]

\* the line the search and detection functions print themselves when there
\* is nothing to do
CompleteEmpty(action) ==
  [json |-> TRUE, status |-> "complete", action |-> action, results |-> <<>>]

Pong == [json |-> TRUE, status |-> "pong"]

ErrorJson(message) == [json |-> TRUE, status |-> "error", message |-> message]

\* print(f"[ERROR] ...")
ErrorLine == [json |-> FALSE, tag |-> "ERROR"]

\* the instances the server's locals keep alive
LiveModels(scanner, cur) == {scanner, cur} \ {0}

\* the identity of a newly constructed instance: the first one not in use
NewInstance(live) ==
  CHOOSE n \in 1..(Cardinality(live) + 1) :
    /\ n \notin live
    /\ \A m \in 1..(n - 1) : m \in live

\* a switch test that always reloads
NeedsSwitch_Always(cur_name, required) == TRUE

\* if current_model_name != <the command's model>
NeedsSwitch(cur_name, required) == cur_name # required

\* an "ensure model" prologue that records the new key before the model is
\* constructed
EnsureModel_NameFirst(scanner, cur, cur_name, required, load_ok) ==
  IF ~NeedsSwitch(cur_name, required)
  THEN [raised |-> FALSE, id |-> cur, name |-> cur_name, constructed |-> <<>>]
  ELSE LET ev == [name |-> required, loaded |-> cur_name,
                  live |-> LiveModels(scanner, cur), ok |-> load_ok]
       IN  [raised |-> ~load_ok,
            id |-> IF load_ok THEN NewInstance(LiveModels(scanner, cur)) ELSE cur,
            name |-> required, constructed |-> <<ev>>]

\* the "ensure model" prologue of scan and transcribe: current_model is
\* rebound to a new instance when the key differs; the old instance is still
\* bound while WhisperModel(...) runs
EnsureModel(scanner, cur, cur_name, required, load_ok) ==
  IF ~NeedsSwitch(cur_name, required)
  THEN [raised |-> FALSE, id |-> cur, name |-> cur_name, constructed |-> <<>>]
  ELSE LET ev == [name |-> required, loaded |-> cur_name,
                  live |-> LiveModels(scanner, cur), ok |-> load_ok]
       IN  IF load_ok
           THEN [raised |-> FALSE, id |-> NewInstance(LiveModels(scanner, cur)),
                 name |-> required, constructed |-> <<ev>>]
           ELSE [raised |-> TRUE, id |-> cur, name |-> cur_name,
                 constructed |-> <<ev>>]

\* the "model" values of the transcribe commands; "absent": no such key
ServerModelRequests == {"absent", "tiny.en", "large-v1"}

\* the outcomes WhisperModel(...) can have where the command is handled:
\* it is not called when no switch is needed
LoadOutcomes(required) ==
  IF NeedsSwitch(current_model_name, required) THEN BOOLEAN ELSE {TRUE}

\* the line read, as the properties need it
Command(action, required, raised) ==
  [kind |-> "command", action |-> action, required |-> required, raised |-> raised]

\* what every iteration leaves alone
ServerFrame ==
  /\ UNCHANGED runVars
  /\ UNCHANGED histVars
  /\ UNCHANGED pipeVars
  /\ UNCHANGED fnVars

\* an iteration that falls back to the start-up model
KeepModel_Reset ==
  /\ constructed' = <<>>
  /\ prev_model' = [id |-> current_model, name |-> current_model_name]
  /\ current_model' = scanner_model
  /\ current_model_name' = "tiny.en"
  /\ UNCHANGED scanner_model

\* the iteration keeps the model it had
KeepModel ==
  /\ constructed' = <<>>
  /\ prev_model' = [id |-> current_model, name |-> current_model_name]
  /\ UNCHANGED modelVars

\* print(f"[SERVER] Init failed: {e}"): the one line of a start that failed
InitFailedLine == [json |-> FALSE, tag |-> "SERVER"]

\* a start-up that enters the loop although the core model did not load
StartServer_ReadyAnyway(load_ok) ==
  /\ spc = "off"
  /\ prev_model' = [id |-> 0, name |-> "None"]
  /\ constructed' = <<[name |-> "tiny.en", loaded |-> "None", live |-> {},
                       ok |-> load_ok]>>
  /\ IF load_ok
     THEN /\ scanner_model' = 1
          /\ current_model' = 1
          /\ current_model_name' = "tiny.en"
     ELSE UNCHANGED modelVars
  /\ spc' = "ready"
  /\ out' = IF load_ok THEN <<>> ELSE <<InitFailedLine>>
  /\ UNCHANGED cmd
  /\ UNCHANGED diskVars
  /\ ServerFrame

\* run_server up to its loop: the tiny.en model is loaded, or the failure is
\* printed and the function returns.  The function is modelled from its
\* entry; how the __main__ block reaches it is not part of this
\* specification.
StartServer(load_ok) ==
  /\ spc = "off"
  /\ prev_model' = [id |-> 0, name |-> "None"]
  /\ constructed' = <<[name |-> "tiny.en", loaded |-> "None", live |-> {},
                       ok |-> load_ok]>>
  /\ IF load_ok
     THEN /\ scanner_model' = 1
          /\ current_model' = 1
          /\ current_model_name' = "tiny.en"
          /\ spc' = "ready"
     ELSE /\ UNCHANGED modelVars
          /\ spc' = "ended"
  /\ out' = IF load_ok THEN <<>> ELSE <<InitFailedLine>>
  /\ UNCHANGED cmd
  /\ UNCHANGED diskVars
  /\ ServerFrame

\* readline returned "": the loop ends
EndOfInput ==
  /\ spc = "ready"
  /\ spc' = "ended"
  /\ cmd' = [kind |-> "eof"]
  /\ out' = <<>>
  /\ KeepModel
  /\ UNCHANGED diskVars
  /\ ServerFrame

\* a handler for bad lines that ends the loop
BadLine_Break(kind) ==
  /\ spc = "ready"
  /\ spc' = "ended"
  /\ cmd' = [kind |-> kind, action |-> "None", required |-> "None", raised |-> TRUE]
  /\ out' = <<ErrorLine>>
  /\ KeepModel
  /\ UNCHANGED diskVars
  /\ ServerFrame

\* a line that is not JSON (JSONDecodeError) or is JSON but not an object
\* (cmd.get raises)
BadLine(kind) ==
  /\ spc = "ready"
  /\ cmd' = [kind |-> kind, action |-> "None", required |-> "None", raised |-> TRUE]
  /\ out' = <<ErrorLine>>
  /\ KeepModel
  /\ UNCHANGED spc
  /\ UNCHANGED diskVars
  /\ ServerFrame

\* a ping branch that also prints a completion line
CmdPing_Complete ==
  /\ spc = "ready"
  /\ cmd' = Command("ping", "None", FALSE)
  /\ out' = <<Pong, Complete("ping")>>
  /\ KeepModel
  /\ UNCHANGED spc
  /\ UNCHANGED diskVars
  /\ ServerFrame

\* action "ping"
CmdPing ==
  /\ spc = "ready"
  /\ cmd' = Command("ping", "None", FALSE)
  /\ out' = <<Pong>>
  /\ KeepModel
  /\ UNCHANGED spc
  /\ UNCHANGED diskVars
  /\ ServerFrame

\* the directories and backends the server's scans are run with
ServerListings == {Files}

ServerOracles == {[f \in Files |-> o] : o \in ScanOutcomes}

\* a scan branch that runs on whatever model the previous command left
CmdScan_NoEnsure(listing, walk_ok, oracle, load_ok, open_ok) ==
  /\ spc = "ready"
  /\ clock < MaxRuns
  /\ prev_model' = [id |-> current_model, name |-> current_model_name]
  /\ constructed' = <<>>
  /\ media' = listing
  /\ report' = IF open_ok
               THEN ScanRunReport("scan", FALSE, listing, walk_ok, report,
                                  oracle, clock, current_model_name)
               ELSE report
  /\ clock' = IF open_ok THEN clock + 1 ELSE clock
  /\ cmd' = Command("scan", "tiny.en", ~open_ok)
  /\ out' = IF open_ok THEN <<Complete("scan")>> ELSE <<ErrorLine>>
  /\ UNCHANGED <<spc, scanner_model, current_model, current_model_name, transcripts>>
  /\ ServerFrame

\* action "scan": the tiny.en model is ensured, then run_batch_scanner runs
\* on current_model without skip_existing
CmdScan(listing, walk_ok, oracle, load_ok, open_ok) ==
  /\ spc = "ready"
  /\ clock < MaxRuns
  /\ LET ens == EnsureModel(scanner_model, current_model, current_model_name,
                            "tiny.en", load_ok)
         ok == ~ens.raised /\ open_ok
     IN  /\ prev_model' = [id |-> current_model, name |-> current_model_name]
         /\ constructed' = ens.constructed
         /\ current_model' = ens.id
         /\ current_model_name' = ens.name
         /\ media' = IF ens.raised THEN media ELSE listing
         /\ report' = IF ok
                      THEN ScanRunReport("scan", FALSE, listing, walk_ok, report,
                                         oracle, clock, ens.name)
                      ELSE report
         /\ clock' = IF ok THEN clock + 1 ELSE clock
         /\ cmd' = Command("scan", "tiny.en", ~ok)
         /\ out' = IF ok THEN <<Complete("scan")>> ELSE <<ErrorLine>>
  /\ UNCHANGED <<spc, scanner_model, transcripts>>
  /\ ServerFrame

\* action "vad_scan": run_batch_vad_scan with the command's skip_existing
CmdVadScan(skip, listing, walk_ok, oracle, open_ok) ==
  /\ spc = "ready"
  /\ clock < MaxRuns
  /\ media' = listing
  /\ report' = IF open_ok
               THEN ScanRunReport("vad_scan", skip, listing, walk_ok, report,
                                  oracle, clock, "None")
               ELSE report
  /\ clock' = IF open_ok THEN clock + 1 ELSE clock
  /\ cmd' = Command("vad_scan", "None", ~open_ok)
  /\ out' = IF open_ok THEN <<Complete("vad_scan")>> ELSE <<ErrorLine>>
  /\ KeepModel
  /\ UNCHANGED <<spc, transcripts>>
  /\ ServerFrame

\* the files and windows the server's transcribe commands name
ServerFiles == {1}

ServerWindows == {[start |-> 0, end |-> 15000]}

\* cmd.get("model", "large-v3")
RequestedModel(mreq) == IF mreq = "absent" THEN "large-v3" ELSE mreq

\* a transcribe handler whose exceptions leave the loop
CmdTranscribe_Fatal(mreq, file, win, skip, outcome, load_ok) ==
  /\ spc = "ready"
  /\ LET required == RequestedModel(mreq)
         ens == EnsureModel(scanner_model, current_model, current_model_name,
                            required, load_ok)
         raised == ens.raised \/ outcome.raised
         out_path == <<file, safe_model("large-v3")>>
     IN  /\ IF raised \/ skip \/ ~Exists(transcripts, out_path) THEN TRUE
            ELSE Len(transcripts[out_path]) < MaxSections
         /\ prev_model' = [id |-> current_model, name |-> current_model_name]
         /\ constructed' = ens.constructed
         /\ current_model' = ens.id
         /\ current_model_name' = ens.name
         /\ transcripts' = IF raised THEN transcripts
                           ELSE run_transcriber(transcripts, file, win.start, win.end,
                                                "large-v3", skip, outcome)
         /\ cmd' = Command("transcribe", required, raised)
         /\ spc' = IF raised THEN "ended" ELSE spc
         /\ out' = IF raised THEN <<ErrorLine>> ELSE <<Complete("transcribe")>>
  /\ UNCHANGED <<scanner_model, media, report, clock>>
  /\ ServerFrame

\* action "transcribe": the requested model is ensured, then run_transcriber
\* runs on current_model with its default model_name
CmdTranscribe(mreq, file, win, skip, outcome, load_ok) ==
  /\ spc = "ready"
  /\ LET required == RequestedModel(mreq)
         ens == EnsureModel(scanner_model, current_model, current_model_name,
                            required, load_ok)
         raised == ens.raised \/ outcome.raised
         out_path == <<file, safe_model("large-v3")>>
     IN  /\ IF raised \/ skip \/ ~Exists(transcripts, out_path) THEN TRUE
            ELSE Len(transcripts[out_path]) < MaxSections
         /\ prev_model' = [id |-> current_model, name |-> current_model_name]
         /\ constructed' = ens.constructed
         /\ current_model' = ens.id
         /\ current_model_name' = ens.name
         /\ transcripts' = IF raised THEN transcripts
                           ELSE run_transcriber(transcripts, file, win.start, win.end,
                                                "large-v3", skip, outcome)
         /\ cmd' = Command("transcribe", required, raised)
         /\ out' = IF raised THEN <<ErrorLine>> ELSE <<Complete("transcribe")>>
  /\ UNCHANGED <<spc, scanner_model, media, report, clock>>
  /\ ServerFrame

\* some transcript holds a line that is neither a header nor blank
HasChunks(ts) == \E k \in DOMAIN ts : \E n \in 1..Len(ts[k]) : ts[k][n].lines # <<>>

\* what run_semantic_search prints, then what the server prints after it
SemanticSearchOutput(ts, import_ok, load_ok, encode_ok) ==
  IF ~import_ok
  THEN <<ErrorLine, ErrorJson("sentence-transformers not installed"),
         Complete("semantic_search")>>
  ELSE IF ~load_ok THEN <<ErrorLine, Complete("semantic_search")>>
  ELSE IF DOMAIN ts = {} \/ ~HasChunks(ts)
  THEN <<CompleteEmpty("semantic_search"), Complete("semantic_search")>>
  ELSE IF ~encode_ok THEN <<ErrorLine>>
  ELSE <<Complete("semantic_search")>>

CmdSemanticSearch(import_ok, load_ok, encode_ok) ==
  /\ spc = "ready"
  /\ cmd' = Command("semantic_search", "None",
                    \/ ~import_ok
                    \/ ~load_ok
                    \/ (DOMAIN transcripts # {} /\ HasChunks(transcripts) /\ ~encode_ok))
  /\ out' = SemanticSearchOutput(transcripts, import_ok, load_ok, encode_ok)
  /\ KeepModel
  /\ UNCHANGED spc
  /\ UNCHANGED diskVars
  /\ ServerFrame

\* the transcript has no line besides headers
EmptyText(sections) == \A n \in 1..Len(sections) : sections[n].lines = <<>>

\* the outcomes of the completion backend in run_analyze
LlmOutcomes == {"result", "no_result", "raised", "unknown_provider"}

\* what run_analyze prints, then what the server prints after it
AnalyzeOutput(ts, target, llm) ==
  IF ~Exists(ts, target) \/ EmptyText(ts[target]) \/ llm # "result"
  THEN <<ErrorLine, Complete("analyze")>>
  ELSE <<Complete("analyze")>>

\* a transcript path that does not exist
NoSuchTranscript == <<0, "none">>

CmdAnalyze(target, llm) ==
  /\ spc = "ready"
  /\ cmd' = Command("analyze", "None",
                    ~Exists(transcripts, target) \/ EmptyText(transcripts[target])
                      \/ llm # "result")
  /\ out' = AnalyzeOutput(transcripts, target, llm)
  /\ KeepModel
  /\ UNCHANGED spc
  /\ UNCHANGED diskVars
  /\ ServerFrame

\* what run_detect_meetings prints, then what the server prints after it
DetectMeetingsOutput(ts) ==
  IF DOMAIN ts = {}
  THEN <<CompleteEmpty("detect_meetings"), Complete("detect_meetings")>>
  ELSE <<Complete("detect_meetings")>>

CmdDetectMeetings ==
  /\ spc = "ready"
  /\ cmd' = Command("detect_meetings", "None", FALSE)
  /\ out' = DetectMeetingsOutput(transcripts)
  /\ KeepModel
  /\ UNCHANGED spc
  /\ UNCHANGED diskVars
  /\ ServerFrame

\* an exit branch that does not leave the loop
CmdExit_Continue ==
  /\ spc = "ready"
  /\ cmd' = Command("exit", "None", FALSE)
  /\ out' = <<>>
  /\ KeepModel
  /\ UNCHANGED spc
  /\ UNCHANGED diskVars
  /\ ServerFrame

\* action "exit": break
CmdExit ==
  /\ spc = "ready"
  /\ spc' = "ended"
  /\ cmd' = Command("exit", "None", FALSE)
  /\ out' = <<>>
  /\ KeepModel
  /\ UNCHANGED diskVars
  /\ ServerFrame

\* an action no branch of the if/elif chain matches, or no "action" key
CmdUnknown(action) ==
  /\ spc = "ready"
  /\ cmd' = Command(action, "None", FALSE)
  /\ out' = <<>>
  /\ KeepModel
  /\ UNCHANGED spc
  /\ UNCHANGED diskVars
  /\ ServerFrame

NextServer ==
  \/ \E load_ok \in BOOLEAN : StartServer(load_ok)
  \/ EndOfInput
  \/ \E kind \in {"not_json", "not_object"} : BadLine(kind)
  \/ CmdPing
  \/ \E listing \in ServerListings, walk_ok \in BOOLEAN, oracle \in ServerOracles,
        load_ok \in LoadOutcomes("tiny.en"), open_ok \in BOOLEAN :
       CmdScan(listing, walk_ok, oracle, load_ok, open_ok)
  \/ \E skip \in BOOLEAN, listing \in ServerListings, walk_ok \in BOOLEAN,
        oracle \in ServerOracles, open_ok \in BOOLEAN :
       CmdVadScan(skip, listing, walk_ok, oracle, open_ok)
  \/ \E mreq \in ServerModelRequests, file \in ServerFiles,
        win \in ServerWindows, skip \in BOOLEAN, outcome \in TransOutcomes :
       \E load_ok \in LoadOutcomes(RequestedModel(mreq)) :
         CmdTranscribe(mreq, file, win, skip, outcome, load_ok)
  \/ \E import_ok \in BOOLEAN, load_ok \in BOOLEAN, encode_ok \in BOOLEAN :
       CmdSemanticSearch(import_ok, load_ok, encode_ok)
  \/ \E target \in DOMAIN transcripts \cup {NoSuchTranscript}, llm \in LlmOutcomes :
       CmdAnalyze(target, llm)
  \/ CmdDetectMeetings
  \/ CmdExit
  \/ \E action \in {"bogus", "None"} : CmdUnknown(action)

\* one server process, from start-up to the end of its input, the input
\* lines being drawn as they are read
SpecServer == Init /\ [][NextServer]_vars

\* ------------------------------------------- the server behind its pipes
\* The driving process writes command lines to the server's standard input
\* whenever it likes; the loop of run_server takes them one at a time.  An
\* iteration is three steps here: readline returns, the branch for the line
\* runs and prints, and control is back at the top of the loop.

\* the driver writes one more line
Send ==
  /\ ~stdin_closed
  /\ stdin_len < MaxLines
  /\ stdin_len' = stdin_len + 1
  /\ UNCHANGED <<stdin_closed, stdin_pos, line, stdout>>
  /\ UNCHANGED <<spc, scanner_model, current_model, current_model_name, cmd, out,
                 constructed, prev_model>>
  /\ UNCHANGED diskVars
  /\ UNCHANGED runVars
  /\ UNCHANGED histVars
  /\ UNCHANGED fnVars

\* the driver closes the pipe
Close ==
  /\ ~stdin_closed
  /\ stdin_closed' = TRUE
  /\ UNCHANGED <<stdin_len, stdin_pos, line, stdout>>
  /\ UNCHANGED <<spc, scanner_model, current_model, current_model_name, cmd, out,
                 constructed, prev_model>>
  /\ UNCHANGED diskVars
  /\ UNCHANGED runVars
  /\ UNCHANGED histVars
  /\ UNCHANGED fnVars

\* a readline that does not wait for the iteration in progress
ReadLine_Eager ==
  /\ spc = "ready"
  /\ stdin_pos < stdin_len
  /\ stdin_pos' = stdin_pos + 1
  /\ line' = stdin_pos + 1
  /\ cmd' = [kind |-> "reading"]
  /\ out' = <<>>
  /\ UNCHANGED <<stdin_len, stdin_closed, stdout>>
  /\ UNCHANGED <<spc, scanner_model, current_model, current_model_name,
                 constructed, prev_model>>
  /\ UNCHANGED diskVars
  /\ UNCHANGED runVars
  /\ UNCHANGED histVars
  /\ UNCHANGED fnVars

\* line = sys.stdin.readline() at the top of the loop returns the next
\* unread line
ReadLine ==
  /\ spc = "ready"
  /\ line = 0
  /\ stdin_pos < stdin_len
  /\ stdin_pos' = stdin_pos + 1
  /\ line' = stdin_pos + 1
  /\ cmd' = [kind |-> "reading"]
  /\ out' = <<>>
  /\ UNCHANGED <<stdin_len, stdin_closed, stdout>>
  /\ UNCHANGED <<spc, scanner_model, current_model, current_model_name,
                 constructed, prev_model>>
  /\ UNCHANGED diskVars
  /\ UNCHANGED runVars
  /\ UNCHANGED histVars
  /\ UNCHANGED fnVars

\* the line read is being handled
Handling == line # 0 /\ cmd.kind = "reading"

\* the branch has printed its last line with flush=True and the loop is back
\* at its top: the driver has the iteration's output
NextIteration ==
  /\ line # 0
  /\ cmd.kind # "reading"
  /\ stdout' = Append(stdout, [line |-> line, out |-> out])
  /\ line' = 0
  /\ UNCHANGED <<stdin_len, stdin_closed, stdin_pos>>
  /\ UNCHANGED <<spc, scanner_model, current_model, current_model_name, cmd, out,
                 constructed, prev_model>>
  /\ UNCHANGED diskVars
  /\ UNCHANGED runVars
  /\ UNCHANGED histVars
  /\ UNCHANGED fnVars

NextOrder ==
  \/ Send
  \/ Close
  \/ \E load_ok \in BOOLEAN : StartServer(load_ok)
  \/ ReadLine
  \/ NextIteration
  \/ (line = 0 /\ stdin_closed /\ stdin_pos = stdin_len) /\ EndOfInput
  \/ Handling /\ \E kind \in {"not_json", "not_object"} : BadLine(kind)
  \/ Handling /\ CmdPing
  \/ Handling /\
       \E listing \in ServerListings, walk_ok \in BOOLEAN, oracle \in ServerOracles,
          load_ok \in LoadOutcomes("tiny.en"), open_ok \in BOOLEAN :
         CmdScan(listing, walk_ok, oracle, load_ok, open_ok)
  \/ Handling /\
       \E skip \in BOOLEAN, listing \in ServerListings, walk_ok \in BOOLEAN,
          oracle \in ServerOracles, open_ok \in BOOLEAN :
         CmdVadScan(skip, listing, walk_ok, oracle, open_ok)
  \/ Handling /\
       \E mreq \in ServerModelRequests, file \in ServerFiles,
          win \in ServerWindows, skip \in BOOLEAN, outcome \in TransOutcomes :
         \E load_ok \in LoadOutcomes(RequestedModel(mreq)) :
           CmdTranscribe(mreq, file, win, skip, outcome, load_ok)
  \/ Handling /\
       \E import_ok \in BOOLEAN, load_ok \in BOOLEAN, encode_ok \in BOOLEAN :
         CmdSemanticSearch(import_ok, load_ok, encode_ok)
  \/ Handling /\
       \E target \in DOMAIN transcripts \cup {NoSuchTranscript}, llm \in LlmOutcomes :
         CmdAnalyze(target, llm)
  \/ Handling /\ CmdDetectMeetings
  \/ Handling /\ CmdExit
  \/ Handling /\ \E action \in {"bogus", "None"} : CmdUnknown(action)

\* one server process fed by a driver through its standard input
SpecOrder == Init /\ [][NextOrder]_vars

\* ------------------------------------------------- the program as a script
\* The top-level statements of fast_engine.py that bind or use the run_*
\* names, in the order the interpreter executes them.
TopLevel ==
  <<"find_media_files", "cluster_segments", "run_vad_scan", "run_batch_vad_scan",
    "run_scanner", "run_batch_scanner", "run_transcriber", "run_batch_transcriber",
    "run_batch_transcribe_dir", "run_transcribe_file", "run_search_transcripts",
    "run_semantic_search", "run_analyze", "run_detect_meetings", "__main__",
    "run_server">>

PositionOf(name) == CHOOSE k \in 1..Len(TopLevel) : TopLevel[k] = name

\* the def statement of name has been executed when the __main__ block runs
BoundInMain(name) == PositionOf(name) < PositionOf("__main__")

\* python fast_engine.py server: the __main__ block evaluates run_server()
LaunchServer(load_ok) ==
  /\ Stopped
  /\ spc = "off"
  /\ op' = "server"
  /\ IF BoundInMain("run_server")
     THEN \* run_server up to its loop
          /\ pc' = "server"
          /\ prev_model' = [id |-> 0, name |-> "None"]
          /\ constructed' = <<[name |-> "tiny.en", loaded |-> "None", live |-> {},
                               ok |-> load_ok]>>
          /\ scanner_model' = IF load_ok THEN 1 ELSE 0
          /\ current_model' = IF load_ok THEN 1 ELSE 0
          /\ current_model_name' = IF load_ok THEN "tiny.en" ELSE "None"
          /\ spc' = IF load_ok THEN "ready" ELSE "ended"
          /\ UNCHANGED <<cmd, out>>
          /\ UNCHANGED pipeVars
     ELSE \* NameError: name 'run_server' is not defined
          /\ pc' = "name_error"
          /\ UNCHANGED srvVars
  /\ UNCHANGED diskVars
  /\ UNCHANGED <<skip_existing, media_files, existing_results, results,
                 files_with_voice, model, i, model_name, voice_files, j, errors,
                 errlog>>
  /\ UNCHANGED histVars
  /\ UNCHANGED fnVars

NextLaunch ==
  \/ NextBatch
  \/ \E load_ok \in BOOLEAN : LaunchServer(load_ok)

\* one run of the script in any of its batch modes or in server mode
SpecLaunch == InitBatch /\ [][NextLaunch]_vars

\* --------------------------------------------- cluster_segments on its own
\* The times the segments are drawn from, in milliseconds: values that round
\* to the same and to different hundredths of a second, and gaps that equal a
\* threshold and exceed it.
TimePoints == {1004, 1005, 1015, 1026, 2026}

Thresholds == {0, 10, 1000}

\* the segments with start <= end
Segments == {Seg(p[1], p[2]) : p \in {q \in TimePoints \X TimePoints : q[1] <= q[2]}}

\* sorted by start
IsChronological(s) == \A k \in 1..(Len(s) - 1) : s[k].start <= s[k + 1].start

\* every list of up to MaxSegs segments, in any order
SegmentLists == UNION {[1..n -> Segments] : n \in 0..MaxSegs}

\* the argument lists: every list with every threshold, and
\* the scanners' call on three segments with the default threshold
ClusterArgs ==
  {[segments |-> s, gap |-> t] : s \in SegmentLists, t \in Thresholds}
    \cup {[segments |-> Voiced, gap |-> gap_threshold]}

InitCluster ==
  /\ media = {}
  /\ report = NoFile
  /\ transcripts = NoTranscripts
  /\ clock = 0
  /\ InitRun
  /\ ServerOff
  /\ PipeIdle
  /\ fn = "cluster_segments"
  /\ arg \in ClusterArgs
  /\ ret = NoCall
  /\ VlmUnloaded

\* blocks, segment_count = cluster_segments(segments, gap_threshold)
CallCluster ==
  /\ fn = "cluster_segments"
  /\ ret = NoCall
  /\ ret' = cluster_segments(arg.segments, arg.gap)
  /\ UNCHANGED <<fn, arg>>
  /\ UNCHANGED vlmVars
  /\ UNCHANGED diskVars
  /\ UNCHANGED runVars
  /\ UNCHANGED histVars
  /\ UNCHANGED srvVars

\* one call of cluster_segments
SpecCluster == InitCluster /\ [][CallCluster]_vars

\* ------------------------------------------- the single-file transcriptions
\* the models run_transcribe_file is started with (--model): a plain name
\* and a repository id
FileModelNames == {"large-v1", "Systran/tiny"}

\* run_transcribe_file's tag: model_name.replace("/", "_").replace("\\", "_")
file_safe_model(name) ==
  CASE name = "large-v1" -> "large-v1"
    [] name = "Systran/tiny" -> "Systran_tiny"

\* the window of a "transcribe" invocation
Windows == {[start |-> 0, end |-> 15000]}

\* mode "transcribe": run_transcriber is called without model and without
\* model_name, so it loads large-v3 itself, transcribes the window, and only
\* then looks for the target
TranscribeWindow(file, win, skip, outcome, load_ok) ==
  /\ Stopped
  /\ op' = "transcribe"
  /\ skip_existing' = skip
  /\ model_name' = "large-v3"
  /\ prior' = report
  /\ completedAtKill' = {}
  /\ i' = 1
  /\ j' = 1
  /\ voice_files' = <<>>
  /\ IF ~load_ok
     THEN /\ pc' = "crashed_load"
          /\ model' = "None"
          /\ scanned' = <<>>
          /\ errlog' = <<>>
          /\ transcripts' = transcripts
     ELSE /\ model' = "large-v3"
          /\ scanned' = <<[file |-> file, block |-> 1, outcome |-> outcome]>>
          /\ errlog' = <<>>
          /\ pc' = IF outcome.raised THEN "crashed_file" ELSE "done"
          /\ transcripts' =
               IF outcome.raised THEN transcripts
               ELSE run_transcriber(transcripts, file, win.start, win.end,
                                    "large-v3", skip, outcome)
  /\ UNCHANGED <<media, report, clock>>
  /\ UNCHANGED <<media_files, existing_results, results, files_with_voice, errors>>
  /\ UNCHANGED srvVars
  /\ UNCHANGED fnVars

\* mode "transcribe_file": run_transcribe_file looks for the target first,
\* then loads the model and transcribes the whole file; the target is
\* rewritten when the backend returned lines
TranscribeFile(file, mname, skip, outcome, load_ok) ==
  /\ Stopped
  /\ op' = "transcribe_file"
  /\ skip_existing' = skip
  /\ model_name' = mname
  /\ prior' = report
  /\ completedAtKill' = {}
  /\ i' = 1
  /\ j' = 1
  /\ voice_files' = <<>>
  /\ errlog' = <<>>
  /\ LET out_check == <<file, file_safe_model(mname)>>
     IN  IF skip /\ Exists(transcripts, out_check)
         THEN /\ pc' = "done"
              /\ model' = "None"
              /\ scanned' = <<>>
              /\ transcripts' = transcripts
         ELSE IF ~load_ok
         THEN /\ pc' = "crashed_load"
              /\ model' = "None"
              /\ scanned' = <<>>
              /\ transcripts' = transcripts
         ELSE /\ model' = mname
              /\ scanned' = <<[file |-> file, outcome |-> outcome]>>
              /\ pc' = IF outcome.raised THEN "crashed_file" ELSE "done"
              /\ transcripts' =
                   IF outcome.raised \/ outcome.lines = <<>> THEN transcripts
                   ELSE WriteSection(transcripts, out_check, "w",
                                     [kind |-> "file", model |-> mname,
                                      duration |-> Round1(outcome.duration),
                                      source |-> file, lines |-> outcome.lines])
  /\ UNCHANGED <<media, report, clock>>
  /\ UNCHANGED <<media_files, existing_results, results, files_with_voice, errors>>
  /\ UNCHANGED srvVars
  /\ UNCHANGED fnVars

\* the transcripts earlier transcriptions have left: none, one of a windowed
\* transcription, and those of whole-file transcriptions of the same file
TranscriptsOnDisk ==
  EarlierTranscripts \cup
  {WriteSection(t, <<1, "large_v3">>, "w",
                [kind |-> "full", duration |-> 420000, source |-> 1,
                 lines |-> <<"old">>]) : t \in EarlierTranscripts} \cup
  {WriteSection(t, <<1, "large-v1">>, "w",
                [kind |-> "file", model |-> "large-v1", duration |-> 420000,
                 source |-> 1, lines |-> <<"old">>]) : t \in EarlierTranscripts}

\* the reports an earlier scan of the whole directory has left
FullReports == {r \in EarlierReports : r.total_files = MaxFiles}

\* one invocation of a transcription on the disk earlier invocations left
InitTranscribe ==
  /\ media = {}
  /\ report \in {NoFile} \cup FullReports
  /\ transcripts \in TranscriptsOnDisk
  /\ clock = 1
  /\ InitRun
  /\ ServerOff
  /\ PipeIdle
  /\ FnIdle

NextTranscribe ==
  \/ \E skip \in BOOLEAN, mname \in BatchModelNames, load_ok \in BOOLEAN :
       StartTranscriber(skip, mname, load_ok)
  \/ \E outcome \in TransOutcomes : TranscribeBlock(outcome)
  \/ \E skip \in BOOLEAN, listing \in SUBSET Files, mname \in BatchModelNames,
        walk_ok \in BOOLEAN, load_ok \in BOOLEAN :
       StartTranscribeDir(skip, listing, mname, walk_ok, load_ok)
  \/ SkipTranscribed
  \/ \E outcome \in TransOutcomes : TranscribeDirFile(outcome)
  \/ \E file \in Files, win \in Windows, skip \in BOOLEAN,
        outcome \in TransOutcomes, load_ok \in BOOLEAN :
       TranscribeWindow(file, win, skip, outcome, load_ok)
  \/ \E file \in Files, mname \in FileModelNames, skip \in BOOLEAN,
        outcome \in TransOutcomes, load_ok \in BOOLEAN :
       TranscribeFile(file, mname, skip, outcome, load_ok)

\* one invocation of any of the four transcription modes
SpecTranscribe == InitTranscribe /\ [][NextTranscribe]_vars

\* --------------------------------------------- find_media_files on its own
\* A file name and a path are sequences of characters.
MEDIA_EXTENSIONS ==
  {<<".", "m", "p", "4">>, <<".", "m", "k", "v">>, <<".", "a", "v", "i">>,
   <<".", "m", "o", "v">>, <<".", "w", "a", "v">>, <<".", "m", "p", "3">>,
   <<".", "f", "l", "a", "c">>, <<".", "m", "4", "a">>, <<".", "w", "e", "b", "m">>,
   <<".", "a", "a", "c">>, <<".", "w", "m", "a">>, <<".", "o", "g", "g">>,
   <<".", "m", "4", "v">>, <<".", "3", "g", "p">>, <<".", "t", "s">>,
   <<".", "m", "p", "g">>, <<".", "m", "p", "e", "g">>}

\* the code point of a character of the paths below
Ord(c) ==
  CASE c = "." -> 46 [] c = "/" -> 47 [] c = "3" -> 51 [] c = "4" -> 52
    [] c = "B" -> 66 [] c = "K" -> 75 [] c = "M" -> 77 [] c = "V" -> 86
    [] c = "a" -> 97 [] c = "b" -> 98 [] c = "c" -> 99 [] c = "k" -> 107
    [] c = "m" -> 109 [] c = "p" -> 112 [] c = "r" -> 114 [] c = "s" -> 115
    [] c = "t" -> 116 [] c = "v" -> 118 [] c = "x" -> 120

\* str.lower()
LowerChar(c) ==
  CASE c = "B" -> "b" [] c = "K" -> "k" [] c = "M" -> "m" [] c = "V" -> "v"
    [] OTHER -> c

Lower(s) == [k \in 1..Len(s) |-> LowerChar(s[k])]

\* os.path.splitext(f)[1]: from the last dot on, unless only dots come
\* before that dot
SplitExt(f) ==
  LET dots == {k \in 1..Len(f) : f[k] = "."}
  IN  IF dots = {} THEN <<>>
      ELSE LET d == CHOOSE k \in dots : \A m \in dots : m <= k
           IN  IF \E k \in 1..(d - 1) : f[k] # "."
               THEN SubSeq(f, d, Len(f))
               ELSE <<>>

\* ext = os.path.splitext(f)[1].lower(); ext in MEDIA_EXTENSIONS
IsMedia(f) == Lower(SplitExt(f)) \in MEDIA_EXTENSIONS

\* the comparison of str: by code point, a proper prefix first
LexLess(p, q) ==
  \E k \in 1..(Len(q)) :
    /\ \A m \in 1..(k - 1) : m <= Len(p) /\ p[m] = q[m]
    /\ \/ k = Len(p) + 1
       \/ k <= Len(p) /\ Ord(p[k]) < Ord(q[k])

RECURSIVE SortPaths(_)
\* media_files.sort() of distinct paths
SortPaths(S) ==
  IF S = {} THEN <<>>
  ELSE LET least == CHOOSE p \in S : \A q \in S \ {p} : LexLess(p, q)
       IN  <<least>> \o SortPaths(S \ {least})

\* the scanned directory and a directory inside it
RootDir == <<"r">>
SubDir == <<"r", "/", "s">>

\* the file names: the three of the documented example, one with an
\* upper-case first letter, one that is all extension
FileNames ==
  {<<"a", ".", "m", "p", "4">>, <<"b", ".", "t", "x", "t">>,
   <<"c", ".", "M", "K", "V">>, <<"B", ".", "m", "p", "3">>,
   <<".", "m", "p", "4">>}

DirEntries == {[dir |-> d, name |-> f] : d \in {RootDir, SubDir}, f \in FileNames}

\* os.path.join(root, f)
FullPath(e) == e.dir \o <<"/">> \o e.name

\* the files in the order os.walk hands them over: each file once, those of
\* the directory itself before those of the directory inside it, the order
\* within a directory being the file system's
WalkOrders ==
  {w \in UNION {[1..n -> DirEntries] : n \in 0..MaxEntries} :
     /\ \A a \in 1..Len(w) : \A b \in 1..Len(w) : a # b => w[a] # w[b]
     /\ \A a \in 1..Len(w) : \A b \in 1..Len(w) :
          (w[a].dir = SubDir /\ w[b].dir = RootDir) => b < a}

\* What the body of the try block appended before it ended.  root_ok: the
\* directory can be listed (os.walk yields nothing otherwise, it swallows
\* the error).  log_fails: -1 when every write to scan_debug.log succeeds,
\* 0 when the log cannot be opened, k when the write after the k-th file
\* raises.
Appended(walk, root_ok, log_fails) ==
  IF log_fails = 0 \/ ~root_ok THEN {}
  ELSE LET last == IF log_fails = -1 THEN Len(walk) ELSE log_fails
       IN  {FullPath(walk[k]) : k \in {m \in 1..last : IsMedia(walk[m].name)}}

\* a find_media_files without the try block: the failure leaves the function
find_media_files_walk_Raises(walk, root_ok, log_fails) ==
  IF ~root_ok \/ log_fails # -1
  THEN [raised |-> TRUE]
  ELSE [raised |-> FALSE, files |-> SortPaths(Appended(walk, root_ok, log_fails))]

\* find_media_files(directory) on the directory os.walk finds: the except
\* clause keeps every exception inside, the list is sorted and returned
find_media_files_walk(walk, root_ok, log_fails) ==
  [raised |-> FALSE, files |-> SortPaths(Appended(walk, root_ok, log_fails))]

DiscoverArgs ==
  {[walk |-> w, root_ok |-> r, log_fails |-> l] :
     w \in WalkOrders, r \in BOOLEAN, l \in -1..MaxEntries}

InitDiscover ==
  /\ media = {}
  /\ report = NoFile
  /\ transcripts = NoTranscripts
  /\ clock = 0
  /\ InitRun
  /\ ServerOff
  /\ PipeIdle
  /\ fn = "find_media_files"
  /\ arg \in {a \in DiscoverArgs : a.log_fails <= Len(a.walk)}
  /\ ret = NoCall
  /\ VlmUnloaded

\* media_files = find_media_files(directory)
CallDiscover ==
  /\ fn = "find_media_files"
  /\ ret = NoCall
  /\ ret' = find_media_files_walk(arg.walk, arg.root_ok, arg.log_fails)
  /\ UNCHANGED <<fn, arg>>
  /\ UNCHANGED vlmVars
  /\ UNCHANGED diskVars
  /\ UNCHANGED runVars
  /\ UNCHANGED histVars
  /\ UNCHANGED srvVars

\* one call of find_media_files
SpecDiscover == InitDiscover /\ [][CallDiscover]_vars

\* ------------------------------------------- run_batch_scanner on its own
\* the values of the model parameter: None, or a model the caller loaded
ScannerModelArgs == {"None", "tiny.en", "large-v1"}

\* the local name model after "if model is None: model = WhisperModel(...)"
BoundModel(model_arg) == IF model_arg = "None" THEN "tiny.en" ELSE model_arg

\* a whole call: the report file after it and whether it raised.  The
\* scanner's own load and the open of the report are the calls that raise.
run_batch_scanner(model_arg, skip, listing, walk_ok, rep, oracle, now, load_ok, open_ok) ==
  IF (model_arg = "None" /\ ~load_ok) \/ ~open_ok
  THEN [raised |-> TRUE, report |-> rep]
  ELSE [raised |-> FALSE,
        report |-> ScanRunReport("scan", skip, listing, walk_ok, rep, oracle,
                                 now, BoundModel(model_arg))]

ScannerArgs ==
  {[model |-> m, skip |-> s, listing |-> l, walk_ok |-> w, oracle |-> o,
    load_ok |-> ld, open_ok |-> op_ok] :
     m \in ScannerModelArgs, s \in BOOLEAN, l \in SUBSET Files, w \in BOOLEAN,
     o \in [Files -> ScanOutcomes], ld \in BOOLEAN, op_ok \in BOOLEAN}

InitScanner ==
  /\ media = {}
  /\ report \in {NoFile, Partial}
  /\ transcripts = NoTranscripts
  /\ clock = 0
  /\ InitRun
  /\ ServerOff
  /\ PipeIdle
  /\ fn = "run_batch_scanner"
  /\ arg \in {a \in ScannerArgs : a.model # "None" => a.load_ok}
  /\ ret = NoCall
  /\ VlmUnloaded

\* run_batch_scanner(directory, model=..., skip_existing=...)
CallScanner ==
  /\ fn = "run_batch_scanner"
  /\ ret = NoCall
  /\ LET r == run_batch_scanner(arg.model, arg.skip, arg.listing, arg.walk_ok,
                                report, arg.oracle, clock, arg.load_ok,
                                arg.open_ok)
     IN  /\ ret' = [raised |-> r.raised]
         /\ report' = r.report
         /\ clock' = IF r.raised THEN clock ELSE clock + 1
  /\ media' = arg.listing
  /\ UNCHANGED transcripts
  /\ UNCHANGED <<fn, arg>>
  /\ UNCHANGED vlmVars
  /\ UNCHANGED runVars
  /\ UNCHANGED histVars
  /\ UNCHANGED srvVars

\* one call of run_batch_scanner
SpecScanner == InitScanner /\ [][CallScanner]_vars

\* ------------------------------------------ the lazily loaded vision model
\* src/timestamp_engine.py.  What the environment lets a load do: the
\* packages are missing (ImportError), their import raises something else,
\* the model cannot be loaded, the model is loaded and the processor cannot,
\* both are loaded.
VlmLoadOutcomes ==
  {"no_packages", "import_raised", "model_failed", "processor_failed", "loaded"}

\* the two functions that call _load_vlm
VlmCallers == {"run_extract_timestamps", "run_batch_rename"}

MaxCalls == 3

\* _load_vlm(): what it returns and the globals it leaves, from the globals
\* m and p it finds
load_vlm(m, p, outcome) ==
  IF m # "None"
  THEN [raised |-> FALSE, model |-> m, processor |-> p,
        vlm_model |-> m, vlm_processor |-> p]
  ELSE CASE outcome = "no_packages" ->
              [raised |-> FALSE, model |-> "None", processor |-> "None",
               vlm_model |-> m, vlm_processor |-> p]
         [] outcome = "import_raised" ->
              [raised |-> TRUE, vlm_model |-> m, vlm_processor |-> p]
         [] outcome = "model_failed" ->
              [raised |-> FALSE, model |-> "None", processor |-> "None",
               vlm_model |-> m, vlm_processor |-> p]
         [] outcome = "processor_failed" ->
              [raised |-> FALSE, model |-> "None", processor |-> "None",
               vlm_model |-> "Qwen2.5-VL", vlm_processor |-> p]
         [] outcome = "loaded" ->
              [raised |-> FALSE, model |-> "Qwen2.5-VL", processor |-> "AutoProcessor",
               vlm_model |-> "Qwen2.5-VL", vlm_processor |-> "AutoProcessor"]

\* what the caller does with the pair: "if model is None: return", else the
\* frames are read with it
CallerProceeds(r) == ~r.raised /\ r.model # "None"

\* the environment is consulted only when nothing is cached
VlmOutcomesNow == IF vlm_model # "None" THEN {"cached"} ELSE VlmLoadOutcomes

InitVlm ==
  /\ media = {}
  /\ report = NoFile
  /\ transcripts = NoTranscripts
  /\ clock = 0
  /\ InitRun
  /\ ServerOff
  /\ PipeIdle
  /\ fn = "_load_vlm"
  /\ arg = NoCall
  /\ ret = NoCall
  /\ VlmUnloaded

\* model, processor = _load_vlm() in one of its callers
CallLoadVlm(caller, outcome) ==
  /\ fn = "_load_vlm"
  /\ Len(vlm_calls) < MaxCalls
  /\ LET r == load_vlm(vlm_model, vlm_processor, outcome)
         returned == IF r.raised THEN [raised |-> TRUE]
                     ELSE [raised |-> FALSE, model |-> r.model,
                           processor |-> r.processor]
     IN  /\ arg' = [caller |-> caller, outcome |-> outcome]
         /\ ret' = returned
         /\ vlm_model' = r.vlm_model
         /\ vlm_processor' = r.vlm_processor
         /\ vlm_calls' = Append(vlm_calls,
                                [caller |-> caller, outcome |-> outcome,
                                 returned |-> returned,
                                 proceeds |-> CallerProceeds(r)])
  /\ UNCHANGED fn
  /\ UNCHANGED diskVars
  /\ UNCHANGED runVars
  /\ UNCHANGED histVars
  /\ UNCHANGED srvVars

NextVlm ==
  \E caller \in VlmCallers, outcome \in VlmOutcomesNow : CallLoadVlm(caller, outcome)

\* the calls of _load_vlm one process makes
SpecVlm == InitVlm /\ [][NextVlm]_vars

\* ============================================================ the claims
FilesOf(res) == [k \in 1..Len(res) |-> res[k].file]

InRun == pc \in {"loop", "save", "dump", "done"}

WasScanned(f) == \E n \in 1..Len(scanned) : scanned[n].file = f

\* the report r is one that operation o writes
ProducedBy(r, o) ==
  IF o = "vad_scan" THEN r.scan_model = "silero-vad" ELSE r.scan_model # "silero-vad"

\* the JSON lines among the printed lines
JsonLines(lines) == SelectSeq(lines, LAMBDA l : l.json)

\* C1 (the claim as stated): every line the server reads other than a ping,
\* whatever its action and whether or not the action fails, is answered by
\* exactly one JSON line, and that line is {status: "complete", action} when
\* the action succeeded.
C1_OneTerminalResponse ==
  (cmd.kind \in {"command", "not_json", "not_object"} /\ cmd.action # "ping") =>
    /\ Len(JsonLines(out)) = 1
    /\ ~cmd.raised => JsonLines(out)[1] = Complete(cmd.action)

\* C2 (the claim as stated): a scan restarted with skip_existing after an
\* interruption calls the backend for no file that the interrupted run had
\* already scanned without error.
C2_ResumeKeepsProgress ==
  (InRun /\ skip_existing) =>
    \A n \in 1..Len(scanned) : scanned[n].file \notin completedAtKill

\* C3: with skip_existing, every discovered file the loop has passed whose
\* entry in the prior report has no error key has that entry, unchanged, at
\* its place in the result set, and no backend call was made for it.
C3_SkipCopiesEntry ==
  (InRun /\ skip_existing /\ IsReport(prior)) =>
    \A k \in 1..(i - 1) : \A m \in 1..Len(prior.results) :
      (prior.results[m].file = media_files[k] /\ "error" \notin DOMAIN prior.results[m])
        => /\ results[k] = prior.results[m]
           /\ ~WasScanned(media_files[k])

\* C3's case: a finished skip_existing run that copied one entry and scanned
\* another file.
C3_Witness ==
  /\ pc = "done" /\ skip_existing /\ IsReport(prior)
  /\ \E k \in 1..Len(results) :
       results[k] \in Range(prior.results) /\ ~WasScanned(media_files[k])
  /\ scanned # <<>>

\* C4 (the claim as stated): the report written by a skip_existing run whose
\* directory walk succeeded holds every entry of the prior report.
C4_AllPriorKept ==
  (pc = "done" /\ skip_existing /\ IsReport(prior) /\ Range(media_files) = media) =>
    \A m \in 1..Len(prior.results) : prior.results[m] \in Range(report.results)

\* C4 (amended): the report written by a skip_existing run holds exactly one
\* entry per discovered file, in discovery order: the prior entry, untouched,
\* where the prior report has an error-free entry for the file, and an entry
\* produced by this run's backend call otherwise.  Prior entries of files not
\* discovered are not carried over.
C4_DiscoveredOnly ==
  (pc = "done" /\ skip_existing /\ IsReport(prior)) =>
    /\ IsReport(report)
    /\ FilesOf(report.results) = media_files
    /\ \A k \in 1..Len(media_files) :
         IF \E m \in 1..Len(prior.results) :
              /\ prior.results[m].file = media_files[k]
              /\ "error" \notin DOMAIN prior.results[m]
         THEN report.results[k] \in Range(prior.results)
         ELSE WasScanned(media_files[k])

\* C4's case: the prior report has an entry for a file that is not discovered
\* now, and another entry that is carried over.
C4_Witness ==
  /\ pc = "done" /\ skip_existing /\ IsReport(prior)
  /\ \E m \in 1..Len(prior.results) : prior.results[m].file \notin Range(media_files)
  /\ \E k \in 1..Len(media_files) : report.results[k] \in Range(prior.results)

\* C5: in a skip_existing run, a discovered file whose prior entry records an
\* error is scanned again, and the written report holds, as the file's only
\* entry, the one built from that new backend call.
C5_ErrorRetried ==
  (pc = "done" /\ skip_existing /\ IsReport(prior)) =>
    \A k \in 1..Len(media_files) : \A m \in 1..Len(prior.results) :
      (prior.results[m].file = media_files[k] /\ "error" \in DOMAIN prior.results[m])
        => /\ \E n \in 1..Len(scanned) :
                /\ scanned[n].file = media_files[k]
                /\ report.results[k] = ScanEntry(op, media_files[k], scanned[n].outcome)
           /\ \A k2 \in 1..Len(report.results) :
                report.results[k2].file = media_files[k] => k2 = k

\* C5's case: a prior error entry whose file now scans without error.
C5_Witness ==
  /\ pc = "done" /\ skip_existing /\ IsReport(prior)
  /\ \E k \in 1..Len(media_files) : \E m \in 1..Len(prior.results) :
       /\ prior.results[m].file = media_files[k]
       /\ "error" \in DOMAIN prior.results[m]
       /\ "error" \notin DOMAIN report.results[k]

\* C6: a skip_existing run of the same scan over the files of an error-free
\* prior report, discovered unchanged, calls no backend and writes a report
\* equal to the prior one in every field but the date.
C6_ResumeIdempotent ==
  (/\ pc = "done" /\ skip_existing /\ IsReport(prior)
   /\ ProducedBy(prior, op)
   /\ FilesOf(prior.results) = media_files
   /\ \A m \in 1..Len(prior.results) : "error" \notin DOMAIN prior.results[m])
  => /\ scanned = <<>>
     /\ report = [prior EXCEPT !.date = report.date]

\* C6's case: the second run over two files, one of them with voice.
C6_Witness ==
  /\ pc = "done" /\ skip_existing /\ IsReport(prior)
  /\ ProducedBy(prior, op)
  /\ FilesOf(prior.results) = media_files
  /\ \A m \in 1..Len(prior.results) : "error" \notin DOMAIN prior.results[m]
  /\ Len(media_files) >= 2
  /\ report.files_with_voice >= 1
  /\ report.date # prior.date

\* C7 (the claim as stated): after an interruption the report path holds what
\* it held when the run started, or a complete report.
C7_SaveAtomic ==
  pc = "killed" => (report = prior \/ IsReport(report))

\* the scan operations
IsScanOp == op \in {"scan", "vad_scan"}

\* the number of backend calls in scanned that raised
RECURSIVE RaisedIn(_, _)
RaisedIn(sc, k) ==
  IF k = 0 THEN 0
  ELSE RaisedIn(sc, k - 1) + (IF sc[k].outcome.raised THEN 1 ELSE 0)

\* the number of blocks in the first k entries of vf
RECURSIVE BlocksIn(_, _)
BlocksIn(vf, k) == IF k = 0 THEN 0 ELSE BlocksIn(vf, k - 1) + Len(vf[k].blocks)

\* the process entered the per-file loop and is no longer in it
LoopLeft ==
  pc \notin {"idle", "killed", "loop", "tloop", "dloop",
             "exit1", "crashed_report", "crashed_load"}

\* C8: in each of the four batch operations an exception raised by one file
\* is recorded (a {file, error} entry in the scans, an [ERROR] line and the
\* error count in the transcribers), the loop goes on to every later file or
\* block, the batch reaches its end, and a finished scan has saved a report
\* whose results are the entries of every discovered file.
C8_ContinueOnError ==
  /\ IsScanOp /\ pc \in {"loop", "save", "dump", "done", "crashed_save"} =>
       \A n \in 1..Len(scanned) :
         scanned[n].outcome.raised =>
           \E k \in 1..Len(results) :
             results[k] = [file |-> scanned[n].file, error |-> scanned[n].outcome.msg]
  /\ op \in {"batch_transcribe", "batch_transcribe_dir"} =>
       Len(errlog) = RaisedIn(scanned, Len(scanned))
  /\ op = "batch_transcribe_dir" => errors = RaisedIn(scanned, Len(scanned))
  /\ LoopLeft =>
       /\ pc \in {"save", "dump", "done", "crashed_save"}
       /\ IsScanOp => FilesOf(results) = media_files
       /\ op = "batch_transcribe" =>
            /\ i = Len(voice_files) + 1
            /\ Len(scanned) = BlocksIn(voice_files, Len(voice_files))
       /\ op = "batch_transcribe_dir" =>
            /\ i = Len(media_files) + 1
            /\ \A k \in 1..Len(media_files) :
                 \/ WasScanned(media_files[k])
                 \/ DirSkips(skip_existing, transcripts, media_files[k], model_name)
  /\ pc = "done" /\ IsScanOp =>
       /\ IsReport(report)
       /\ report.results = results

\* C8 (witness): a batch has finished in which one file raised and a later
\* file was processed without error
C8_Witness ==
  /\ pc = "done"
  /\ \E n \in 1..Len(scanned) :
       /\ scanned[n].outcome.raised
       /\ \E m \in (n + 1)..Len(scanned) : ~scanned[m].outcome.raised

\* the speech model the last command needs: tiny.en for scan, the requested
\* model for transcribe, none for the others
NeedsModel == cmd.kind = "command" /\ cmd.action \in {"scan", "transcribe"}

\* C9: in the server a speech model is constructed only when the key the
\* command needs differs from the key of the current model, at most once per
\* command; a command that needs the current model's key constructs nothing
\* and runs on the instance the previous command left.
C9_LoadOnlyOnKeyChange ==
  /\ \A k \in 1..Len(constructed) :
       /\ constructed[k].name # constructed[k].loaded
       /\ constructed[k].loaded = prev_model.name
       /\ NeedsModel => constructed[k].name = cmd.required
  /\ Len(constructed) <= 1
  /\ cmd.kind \notin {"none", "command"} => constructed = <<>>
  /\ (cmd.kind = "command" /\ ~NeedsModel) => constructed = <<>>
  /\ (NeedsModel /\ cmd.required = prev_model.name) =>
       /\ constructed = <<>>
       /\ current_model = prev_model.id
       /\ current_model_name = prev_model.name

\* C9 (witness): a transcribe command that needed the model an earlier command
\* had switched to has completed without constructing a model
C9_Witness ==
  /\ spc = "ready"
  /\ cmd.kind = "command"
  /\ cmd.action = "transcribe"
  /\ cmd.required = "large-v3"
  /\ prev_model.name = "large-v3"
  /\ constructed = <<>>
  /\ current_model = prev_model.id
  /\ out = <<Complete("transcribe")>>

\* C10 (the claim as stated): the server never holds two speech-model
\* instances; nothing is loaded while a model is constructed (the old one
\* has been released), and no command constructs two.
C10_SingleInstance ==
  /\ Cardinality(LiveModels(scanner_model, current_model)) <= 1
  /\ \A k \in 1..Len(constructed) : constructed[k].live = {}
  /\ Len(constructed) <= 1

\* C11 (the claim as stated): a launch in server mode runs the server's
\* initialisation: the core model load is attempted and the server is READY
\* when it succeeded, TERMINATED when it failed.
C11_LaunchReachesReady ==
  op = "server" =>
    /\ pc # "name_error"
    /\ constructed # <<>>
    /\ spc \in {"ready", "ended"}
    /\ constructed[1].ok => spc = "ready"

\* C12: a step of the server that reads a line that is not valid JSON prints
\* exactly one error line, leaves the loaded model, the report, the
\* transcripts and the media untouched, and leaves the server at readline.
C12_MalformedLine ==
  [][(spc = "ready" /\ cmd'.kind = "not_json") =>
       /\ out' = <<ErrorLine>>
       /\ constructed' = <<>>
       /\ spc' = "ready"
       /\ UNCHANGED <<scanner_model, current_model, current_model_name>>
       /\ UNCHANGED <<media, report, transcripts, clock>>]_vars

\* C12 (witness): a malformed line has been answered in a server that had
\* switched models and written a report
C12_Witness ==
  /\ cmd.kind = "not_json"
  /\ spc = "ready"
  /\ out = <<ErrorLine>>
  /\ current_model_name = "large-v3"
  /\ IsReport(report)

\* C13 (the claim as stated): a server command whose action failed is
\* answered by a JSON line that shows the failure, and by no JSON line with
\* status "complete".
C13_FailureMirrored ==
  (cmd.kind = "command" /\ cmd.raised) =>
    /\ \A n \in 1..Len(JsonLines(out)) : JsonLines(out)[n].status # "complete"
    /\ \E n \in 1..Len(JsonLines(out)) : JsonLines(out)[n].status = "error"

C15_ExitEndsLoop ==
  [][/\ (/\ spc = "ready"
         /\ \/ cmd'.kind = "eof"
            \/ (cmd'.kind = "command" /\ cmd'.action = "exit")) =>
          /\ spc' = "ended"
          /\ out' = <<>>
          /\ UNCHANGED <<media, report, transcripts, clock>>
          /\ UNCHANGED <<scanner_model, current_model, current_model_name>>
     /\ spc = "ended" => UNCHANGED vars]_vars

\* C15 (witness): the loop has ended on an exit command received after
\* another command had been answered
C15_Witness ==
  /\ spc = "ended"
  /\ cmd.kind = "command"
  /\ cmd.action = "exit"
  /\ out = <<>>
  /\ IsReport(report)

\* C16: the step that handles a ping, whatever model is loaded and whatever
\* is on disk, prints the single line {"status": "pong"} and does nothing
\* else: the model, the disk and the loop are as they were.
C16_PingPong ==
  [][(spc = "ready" /\ cmd'.kind = "command" /\ cmd'.action = "ping") =>
       /\ out' = <<Pong>>
       /\ constructed' = <<>>
       /\ spc' = "ready"
       /\ UNCHANGED <<media, report, transcripts, clock>>
       /\ UNCHANGED <<scanner_model, current_model, current_model_name>>]_vars

\* C16 (witness): a ping has been answered by a server that had switched to
\* another model and had written a report and a transcript
C16_Witness ==
  /\ cmd.kind = "command"
  /\ cmd.action = "ping"
  /\ out = <<Pong>>
  /\ current_model_name = "large-v1"
  /\ IsReport(report)
  /\ transcripts # NoTranscripts

\* C17: the server handles the lines of its input in the order they were
\* written, one at a time: a line is read only when every line before it has
\* been answered, the line being handled is the last one read, and the k-th
\* answer written is the answer to the k-th line.
C17_ArrivalOrder ==
  /\ stdin_pos <= stdin_len
  /\ \A k \in 1..Len(stdout) : stdout[k].line = k
  /\ line # 0 => (line = stdin_pos /\ Len(stdout) = line - 1)
  /\ (line = 0 /\ spc = "ready") => Len(stdout) = stdin_pos

\* C17 (witness): two lines written before the first was answered have both
\* been answered, the first by a completion line
C17_Witness ==
  /\ Len(stdout) = 2
  /\ stdout[1].out = <<Complete("vad_scan")>>
  /\ stdout[2].out = <<Pong>>
  /\ line = 0

\* cluster_segments has returned
Called == fn = "cluster_segments" /\ "blocks" \in DOMAIN ret

\* C18 (the claim as stated): for every chronological segment list and every
\* threshold >= 0, the blocks returned have start <= end, are strictly
\* ordered by start, do not overlap and are no more than the segments.
C18_StrictlyOrdered ==
  Called /\ IsChronological(arg.segments) =>
    LET b == ret.blocks
    IN  /\ \A k \in 1..Len(b) : b[k].start <= b[k].end
        /\ \A k \in 1..(Len(b) - 1) : b[k].start < b[k + 1].start
        /\ \A k \in 1..Len(b) : \A m \in (k + 1)..Len(b) : b[k].end <= b[m].start
        /\ Len(b) <= Len(arg.segments)

\* C18 (amended): for every chronological segment list and every threshold
\* >= 0, the blocks returned have start <= end, are ordered by start, overlap
\* in no more than an end point and are no more than the segments; when the
\* threshold is at least the rounding unit (0.01 s) they are strictly ordered
\* by start and each block ends strictly before the next one starts.
C18_BlocksOrdered ==
  Called /\ IsChronological(arg.segments) =>
    LET b == ret.blocks
    IN  /\ \A k \in 1..Len(b) : b[k].start <= b[k].end
        /\ \A k \in 1..(Len(b) - 1) : b[k].start <= b[k + 1].start
        /\ \A k \in 1..Len(b) : \A m \in (k + 1)..Len(b) : b[k].end <= b[m].start
        /\ Len(b) <= Len(arg.segments)
        /\ arg.gap >= RoundUnit =>
             \A k \in 1..(Len(b) - 1) :
               /\ b[k].start < b[k + 1].start
               /\ b[k].end < b[k + 1].start

\* C18 (witness): three segments, each more than the threshold after the one
\* before, have been clustered into three blocks
C18_Witness ==
  /\ Called
  /\ arg.gap = RoundUnit
  /\ Len(arg.segments) = 3
  /\ Len(ret.blocks) = 3

\* segment k's start minus the previous segment's end (k >= 2)
GapBefore(segments, k) == segments[k].start - segments[k - 1].end

\* the number of blocks cluster_segments makes of the first k segments
BlocksOfPrefix(segments, gap, k) ==
  Len(cluster_segments(SubSeq(segments, 1, k), gap).blocks)

\* C19: cluster_segments opens a new block at a segment after the first if
\* and only if that segment's start minus the previous segment's end is
\* strictly greater than the threshold: taking segment k into the input adds
\* one block when the gap before it exceeds the threshold and none otherwise
\* (so none at a gap equal to the threshold), and the blocks returned are one
\* more than the gaps that exceed the threshold.
C19_SplitIffGapExceeds ==
  Called =>
    LET s == arg.segments
        t == arg.gap
    IN  /\ \A k \in 2..Len(s) :
             /\ GapBefore(s, k) > t =>
                  BlocksOfPrefix(s, t, k) = BlocksOfPrefix(s, t, k - 1) + 1
             /\ GapBefore(s, k) <= t =>
                  BlocksOfPrefix(s, t, k) = BlocksOfPrefix(s, t, k - 1)
        /\ s # <<>> =>
             Len(ret.blocks) = 1 + Cardinality({k \in 2..Len(s) : GapBefore(s, k) > t})

\* C19 (witness): of three segments the second starts exactly the threshold
\* after the first ends and the third more than the threshold after the
\* second ends, and two blocks were returned
C19_Witness ==
  /\ Called
  /\ arg.gap > 0
  /\ Len(arg.segments) = 3
  /\ GapBefore(arg.segments, 2) = arg.gap
  /\ GapBefore(arg.segments, 3) > arg.gap
  /\ Len(ret.blocks) = 2

\* the segments a run starts at: the first, and each one more than the
\* threshold after the end of the segment before it
RunStarts(segments, gap) ==
  {k \in 1..Len(segments) : k = 1 \/ GapBefore(segments, k) > gap}

\* the last segment of the run that starts at segment k
RunEnd(segments, gap, k) ==
  CHOOSE m \in k..Len(segments) :
    /\ \A x \in (k + 1)..m : x \notin RunStarts(segments, gap)
    /\ m = Len(segments) \/ (m + 1) \in RunStarts(segments, gap)

\* the n-th run start
NthRunStart(segments, gap, n) ==
  CHOOSE k \in RunStarts(segments, gap) :
    Cardinality({x \in RunStarts(segments, gap) : x <= k}) = n

\* the maximal runs, each as the span from its first segment's start to its
\* last segment's end
ReferenceBlocks(segments, gap) ==
  [n \in 1..Cardinality(RunStarts(segments, gap)) |->
     LET k == NthRunStart(segments, gap, n)
     IN  [start |-> segments[k].start,
          end |-> segments[RunEnd(segments, gap, k)].end]]

\* the same spans with both bounds rounded as round(x, 2) rounds them
RoundedReferenceBlocks(segments, gap) ==
  LET ref == ReferenceBlocks(segments, gap)
  IN  [n \in 1..Len(ref) |->
         [start |-> Round2(ref[n].start), end |-> Round2(ref[n].end)]]

\* C20 (the claim as stated): for every segment list cluster_segments returns
\* the maximal runs cut at each gap above the threshold, each block spanning
\* exactly its first segment's start to its last segment's end, and
\* segment_count equal to the number of segments.
C20_ExactReference ==
  Called =>
    /\ ret.blocks = ReferenceBlocks(arg.segments, arg.gap)
    /\ ret.segment_count = Len(arg.segments)

\* C20 (amended): for every segment list cluster_segments returns the maximal
\* runs cut at each gap above the threshold, each block spanning its first
\* segment's start to its last segment's end with both bounds rounded to two
\* decimals, and segment_count equal to the number of segments; (0,5),
\* (10,15), (400,410) at 180 s give (0,15), (400,410) and count 3, and the
\* empty list gives no block and count 0.
C20_RoundedReference ==
  Called =>
    /\ ret.blocks = RoundedReferenceBlocks(arg.segments, arg.gap)
    /\ ret.segment_count = Len(arg.segments)
    /\ arg.segments = Voiced /\ arg.gap = gap_threshold =>
         ret = [blocks |-> <<[start |-> 0, end |-> 15000],
                             [start |-> 400000, end |-> 410000]>>,
                segment_count |-> 3]
    /\ arg.segments = <<>> => ret = [blocks |-> <<>>, segment_count |-> 0]

\* C20 (witness): a list of three segments whose first run holds two of them
\* and whose bounds are not whole hundredths has been clustered into two
\* blocks
C20_Witness ==
  /\ Called
  /\ Len(arg.segments) = 3
  /\ RunStarts(arg.segments, arg.gap) = {1, 3}
  /\ Len(ret.blocks) = 2
  /\ ret.segment_count = 3
  /\ ReferenceBlocks(arg.segments, arg.gap) # RoundedReferenceBlocks(arg.segments, arg.gap)

\* C21: every segment of a list sorted by start lies entirely inside one of
\* the blocks cluster_segments returns, also when segments overlap or are
\* nested.  Rounding is monotone, so a segment inside a block before the
\* rounding has its rounded bounds inside the rounded block.
C21_SegmentsCovered ==
  Called /\ IsChronological(arg.segments) =>
    \A k \in 1..Len(arg.segments) :
      \E n \in 1..Len(ret.blocks) :
        /\ ret.blocks[n].start <= Round2(arg.segments[k].start)
        /\ Round2(arg.segments[k].end) <= ret.blocks[n].end

\* C22: in a scan or a VAD scan, the blocks of the entry built for a file
\* the backend returned segments for are the blocks cluster_segments makes of
\* those segments at the default threshold, so that segments no more than
\* the threshold apart share a block.
C22_BlocksAreClusters ==
  op \in {"scan", "vad_scan"} =>
    \A n \in 1..Len(scanned) :
      ~scanned[n].outcome.raised =>
        \A k \in 1..Len(results) :
          results[k].file = scanned[n].file =>
            results[k].blocks =
              cluster_segments(scanned[n].outcome.segments, gap_threshold).blocks

\* find_media_files has returned or raised
Returned == fn = "find_media_files" /\ "raised" \in DOMAIN ret

\* the paths of the files under the directory whose extension, in lower
\* case, is in the allow-list
MediaUnder(walk) == {FullPath(walk[k]) : k \in {m \in 1..Len(walk) : IsMedia(walk[m].name)}}

\* C23: find_media_files returns exactly the files under a listable root
\* whose extension, compared case-insensitively, is in the allow-list, each
\* once, in increasing lexicographic order of the full path; a.mp4, b.txt and
\* c.MKV in the root give a.mp4, c.MKV.
C23_ExactlyTheMediaFiles ==
  Returned /\ arg.root_ok =>
    /\ ~ret.raised
    /\ Range(ret.files) = MediaUnder(arg.walk)
    /\ \A a \in 1..Len(ret.files) : \A b \in (a + 1)..Len(ret.files) :
         LexLess(ret.files[a], ret.files[b])
    /\ Range(arg.walk) = {[dir |-> RootDir, name |-> <<"a", ".", "m", "p", "4">>],
                          [dir |-> RootDir, name |-> <<"b", ".", "t", "x", "t">>],
                          [dir |-> RootDir, name |-> <<"c", ".", "M", "K", "V">>]} =>
         ret.files = <<RootDir \o <<"/", "a", ".", "m", "p", "4">>,
                       RootDir \o <<"/", "c", ".", "M", "K", "V">>>>

\* C24: when the root cannot be listed, find_media_files does not raise and
\* returns the empty list, whether or not its debug log can be written.
C24_UnlistableRootIsEmpty ==
  (fn = "find_media_files" /\ ret # NoCall /\ ~arg.root_ok) =>
    /\ ~ret.raised
    /\ ret.files = <<>>

\* C24 (witness): find_media_files has returned from a root that cannot be
\* listed although media files lie under it
C24_Witness ==
  /\ Returned
  /\ ~arg.root_ok
  /\ MediaUnder(arg.walk) # {}
  /\ ~ret.raised
  /\ ret.files = <<>>

\* strictly increasing: the paths in lexicographic order, none twice
IsSortedSeq(s) == \A a \in 1..Len(s) : \A b \in (a + 1)..Len(s) : s[a] < s[b]

\* C25: in a scan or a VAD scan the discovered files are in sorted order,
\* the loop takes them in that order (the entries built so far are those of
\* the first files of the list, in the list's order, and the backend calls
\* were made in sorted order), and the results of the written report name
\* the discovered files in that same order.
C25_SortedOrderKept ==
  (op \in {"scan", "vad_scan"} /\ InRun) =>
    /\ IsSortedSeq(media_files)
    /\ FilesOf(results) = SubSeq(media_files, 1, Len(results))
    /\ IsSortedSeq([n \in 1..Len(scanned) |-> scanned[n].file])
    /\ pc = "done" =>
         /\ IsReport(report)
         /\ FilesOf(report.results) = media_files

\* C25 (witness): a run over two files has called the backend for both and
\* written its report
C25_Witness ==
  /\ op \in {"scan", "vad_scan"}
  /\ pc = "done"
  /\ Len(media_files) = 2
  /\ Len(scanned) = 2
  /\ FilesOf(report.results) = media_files

\* the step is one call of a transcription backend
BackendStep == Len(scanned') = Len(scanned) + 1

\* that call: the file and what the backend returned
LastCall == scanned'[Len(scanned')]

\* the transcript file the running transcription writes for that file
TargetKey ==
  <<LastCall.file,
    IF op' = "transcribe_file" THEN file_safe_model(model_name')
    ELSE safe_model(model_name')>>

IsWindowed == op' \in {"batch_transcribe", "transcribe"}

IsWholeFile == op' \in {"batch_transcribe_dir", "transcribe_file"}

\* every transcript file but the one at key is as it was
OthersKept(key) ==
  /\ DOMAIN transcripts \subseteq DOMAIN transcripts'
  /\ DOMAIN transcripts' \subseteq DOMAIN transcripts \cup {key}
  /\ \A k \in DOMAIN transcripts \ {key} : transcripts'[k] = transcripts[k]

\* the file at key holds what it held, then one new section
Appended1(key) ==
  /\ Exists(transcripts', key)
  /\ Len(transcripts'[key]) = Len(transcripts[key]) + 1
  /\ SubSeq(transcripts'[key], 1, Len(transcripts[key])) = transcripts[key]
  /\ transcripts'[key][Len(transcripts'[key])].kind = "window"
  /\ transcripts'[key][Len(transcripts'[key])].lines = LastCall.outcome.lines

\* the file at key holds one section, that of this call
Replaced(key) ==
  /\ Exists(transcripts', key)
  /\ Len(transcripts'[key]) = 1
  /\ transcripts'[key][1].kind \in {"full", "file"}
  /\ transcripts'[key][1].lines = LastCall.outcome.lines

\* C26 (the claim as stated): a transcription without skip_existing whose
\* backend call returned and whose target exists appends one section to the
\* target and keeps what it held when it is windowed, and replaces the
\* target's content when it is a whole-file transcription.
C26_AppendOrReplace ==
  [][(/\ BackendStep
      /\ ~LastCall.outcome.raised
      /\ ~skip_existing'
      /\ Exists(transcripts, TargetKey))
     => IF IsWindowed THEN Appended1(TargetKey) ELSE Replaced(TargetKey)]_vars

\* C26 (amended): a windowed transcription whose backend call returned
\* appends one section to an existing target and keeps what it held, unless
\* skip_existing is set, and then it leaves the target as it is; a
\* whole-file transcription whose backend call returned at least one line
\* replaces the target's content (or creates the target), and one whose
\* backend call returned no line leaves the target as it is; a call that
\* raised writes nothing; no other transcript file is touched.
C26_AppendOrReplaceWhenWritten ==
  [][BackendStep =>
       /\ OthersKept(TargetKey)
       /\ LastCall.outcome.raised => transcripts' = transcripts
       /\ (~LastCall.outcome.raised /\ IsWindowed /\ Exists(transcripts, TargetKey)) =>
            IF skip_existing' THEN transcripts' = transcripts
            ELSE Appended1(TargetKey)
       /\ (~LastCall.outcome.raised /\ IsWholeFile) =>
            IF LastCall.outcome.lines = <<>> THEN transcripts' = transcripts
            ELSE Replaced(TargetKey)]_vars

\* C26 (witness): a windowed transcription has appended its section to a
\* transcript file that held a whole-file transcription
C26_Witness ==
  /\ op \in {"batch_transcribe", "transcribe"}
  /\ ~skip_existing
  /\ \E key \in DOMAIN transcripts :
       /\ Len(transcripts[key]) = 2
       /\ transcripts[key][1].kind = "full"
       /\ transcripts[key][2].kind = "window"

\* C27: a run_batch_transcriber started where the report file does not exist
\* ends at once with exit status 1: no model is loaded, no backend is
\* called, no transcript file is written, and nothing happens after.
C27_MissingReportExits ==
  [][/\ (Stopped /\ op' = "batch_transcribe" /\ report.kind = "none") =>
          /\ pc' = "exit1"
          /\ model' = "None"
          /\ scanned' = <<>>
          /\ transcripts' = transcripts
          /\ report' = report
     /\ pc = "exit1" => UNCHANGED vars]_vars

\* C27 (witness): the run has ended with status 1 beside transcript files
\* that earlier runs left, and the report is still missing
C27_Witness ==
  /\ op = "batch_transcribe"
  /\ pc = "exit1"
  /\ report = NoFile
  /\ model = "None"
  /\ transcripts # NoTranscripts

\* a success entry: blocks, possibly empty, and no error
IsSuccessEntry(e) == "blocks" \in DOMAIN e /\ "error" \notin DOMAIN e

\* a failure entry: error and no blocks
IsFailureEntry(e) == "error" \in DOMAIN e /\ "blocks" \notin DOMAIN e

\* C28: every entry of the result set a scan is building, and of every
\* report a scan has written, is a success entry or a failure entry, never
\* both and never neither; so is every entry copied from the prior report
\* under skip_existing, and such an entry is a success entry.
C28_OneShapePerEntry ==
  /\ \A k \in 1..Len(results) :
       /\ IsSuccessEntry(results[k]) \/ IsFailureEntry(results[k])
       /\ (skip_existing /\ ~WasScanned(results[k].file)) => IsSuccessEntry(results[k])
  /\ IsReport(report) =>
       \A k \in 1..Len(report.results) :
         IsSuccessEntry(report.results[k]) \/ IsFailureEntry(report.results[k])

\* C28 (witness): a skip_existing run has written a report that holds an
\* entry copied from the prior report
\* and a failure entry built by this run
C28_Witness ==
  /\ pc = "done" /\ skip_existing /\ IsReport(prior) /\ IsReport(report)
  /\ \E k \in 1..Len(report.results) :
       /\ ~WasScanned(report.results[k].file)
       /\ IsSuccessEntry(report.results[k])
  /\ \E k \in 1..Len(report.results) : IsFailureEntry(report.results[k])

\* the transcript files a step created or changed
Written ==
  {key \in DOMAIN transcripts' :
     key \notin DOMAIN transcripts \/ transcripts'[key] # transcripts[key]}

\* C29: a transcript file written by a server "transcribe" command carries
\* the tag of the model the command named, which is the model the server
\* ran the transcription on.
C29_TagIsModelUsed ==
  [][(cmd'.kind = "command" /\ cmd'.action = "transcribe" /\ ~cmd'.raised) =>
       \A key \in Written :
         /\ key[2] = safe_model(cmd'.required)
         /\ key[2] = safe_model(current_model_name')]_vars

\* the file a step of a transcription processes, and the transcript file
\* that transcription would write for it, at the point where a step is taken
\* in the loop of run_batch_transcriber or of run_batch_transcribe_dir
NextTargetExists ==
  \/ /\ pc = "tloop"
     /\ Exists(transcripts, <<voice_files[i].file, safe_model(model_name)>>)
  \/ /\ pc = "dloop"
     /\ Exists(transcripts, <<media_files[i], safe_model(model_name)>>)

\* the tag of the transcript files the running transcription writes
TagOfRun ==
  IF op' = "transcribe_file" THEN file_safe_model(model_name')
  ELSE safe_model(model_name')

\* C30: with skip_existing set, a step of a batch transcription taken at a
\* file whose transcript file exists calls no transcription backend and
\* leaves every transcript file as it is; a windowed or single-file
\* transcription started with skip_existing calls the backend for no file
\* whose transcript file exists and changes no transcript file that exists.
C30_SkipCallsNoBackend ==
  [][/\ (skip_existing /\ NextTargetExists) =>
          /\ scanned' = scanned
          /\ transcripts' = transcripts
     /\ (Stopped /\ skip_existing' /\ op' \in {"transcribe", "transcribe_file"}) =>
          /\ \A n \in 1..Len(scanned') :
               ~Exists(transcripts, <<scanned'[n].file, TagOfRun>>)
          /\ \A key \in DOMAIN transcripts : transcripts'[key] = transcripts[key]]_vars

\* no earlier run has left the transcript file at key
NotOnDiskBefore(key) == \A t \in TranscriptsOnDisk : key \notin DOMAIN t

\* C31: when a run_batch_transcriber with skip_existing has ended, every
\* report entry with two or more blocks whose transcript file no earlier run
\* had left, and none of whose backend calls raised, has one section in its
\* transcript file for each of its blocks.
C31_LaterBlocksWritten ==
  (op = "batch_transcribe" /\ pc = "done" /\ skip_existing) =>
    \A k \in 1..Len(voice_files) :
      LET key == <<voice_files[k].file, safe_model(model_name)>>
      IN  (/\ Len(voice_files[k].blocks) >= 2
           /\ NotOnDiskBefore(key)
           /\ \A n \in 1..Len(scanned) :
                scanned[n].file = voice_files[k].file => ~scanned[n].outcome.raised)
          => /\ Exists(transcripts, key)
             /\ Len(transcripts[key]) = Len(voice_files[k].blocks)

\* the last command was a scan or a transcribe whose model was in place when
\* its batch function was called: no construction failed
Executed == NeedsModel /\ \A k \in 1..Len(constructed) : constructed[k].ok

\* the key the last command's action is to run under
WantedModel == IF cmd.action = "scan" THEN "tiny.en" ELSE cmd.required

\* C32: when the server has executed a scan the model it ran on is keyed
\* tiny.en, and when it has executed a transcribe the model it ran on is
\* keyed by the command's model field (large-v3 when absent): the instance is
\* either the one kept from the previous command under that very key or one
\* constructed for that key in this command.
C32_RunsOnWantedModel ==
  Executed =>
    /\ current_model_name = WantedModel
    /\ IF constructed = <<>>
       THEN /\ prev_model.name = WantedModel
            /\ current_model = prev_model.id
       ELSE /\ constructed[1].name = WantedModel
            /\ current_model \notin constructed[1].live
            /\ current_model # 0

\* C32 (witness): a scan has been executed by a server whose previous command
\* had left a large model loaded; a tiny.en model was constructed for it
C32_Witness ==
  /\ cmd.kind = "command"
  /\ cmd.action = "scan"
  /\ ~cmd.raised
  /\ prev_model.name = "large-v3"
  /\ constructed # <<>>
  /\ constructed[1].ok
  /\ current_model_name = "tiny.en"
  /\ out = <<Complete("scan")>>

\* C33: after every step of the server the pair (current_model,
\* current_model_name) is either the pair the step found, or both members are
\* new and the new instance was constructed, successfully, under the new
\* name; a construction that raised leaves both as they were.
C33_PairMovesTogether ==
  \/ /\ current_model = prev_model.id
     /\ current_model_name = prev_model.name
  \/ /\ current_model # prev_model.id
     /\ current_model_name # prev_model.name
     /\ Len(constructed) = 1
     /\ constructed[1].ok
     /\ constructed[1].name = current_model_name
     /\ current_model \notin constructed[1].live \cup {0}

\* C33 (witness): a transcribe command whose model could not be constructed
\* has been handled by a server holding a model other than the start-up one;
\* instance and name are those the command found
C33_Witness ==
  /\ cmd.kind = "command"
  /\ cmd.action = "transcribe"
  /\ cmd.required = "large-v3"
  /\ constructed # <<>>
  /\ ~constructed[1].ok
  /\ prev_model.name = "large-v1"
  /\ current_model_name = "large-v1"
  /\ current_model = prev_model.id
  /\ current_model # scanner_model

\* C34: the report a call of run_batch_scanner has written records scan_model
\* "tiny.en" when the caller passed no model, so that the scanner loaded its
\* own tiny.en, and "custom" when the caller passed a model.
C34_ScanModelRecorded ==
  (fn = "run_batch_scanner" /\ ret # NoCall /\ ~ret.raised) =>
    report.scan_model = IF arg.model = "None" THEN "tiny.en" ELSE "custom"

\* C35: what find_media_files returns from a listable root does not depend on
\* its debug log: whether scan_debug.log can be opened and written or not,
\* the call returns the files it returns when every write succeeds.
C35_LogFailureLosesNothing ==
  (Returned /\ arg.root_ok) =>
    /\ ~ret.raised
    /\ ret.files = find_media_files_walk(arg.walk, arg.root_ok, -1).files

\* the load of the core model at start-up raised
InitLoadFailed ==
  /\ constructed # <<>>
  /\ constructed[1].loaded = "None"
  /\ ~constructed[1].ok

\* C36: a server whose core tiny.en model did not load has printed the
\* failure and has ended: it holds no model, it has read no line and run no
\* command, the disk is as it was and no further step is possible; a server
\* at readline always holds the core model.
C36_FailedInitTerminates ==
  /\ InitLoadFailed =>
       /\ spc = "ended"
       /\ out = <<InitFailedLine>>
       /\ cmd = [kind |-> "none"]
       /\ scanner_model = 0
       /\ current_model = 0
       /\ current_model_name = "None"
       /\ media = {}
       /\ report = NoFile
       /\ transcripts = NoTranscripts
       /\ ~ENABLED NextServer
  /\ spc = "ready" => scanner_model # 0

\* C36 (witness): the start-up load has failed and the server has ended
\* after printing the failure
C36_Witness ==
  /\ InitLoadFailed
  /\ constructed[1].name = "tiny.en"
  /\ spc = "ended"
  /\ out = <<InitFailedLine>>
  /\ cmd = [kind |-> "none"]

\* the entry is one of a file in which voice was found
IsVoiced(e) ==
  /\ "error" \notin DOMAIN e
  /\ "segments_found" \in DOMAIN e
  /\ e.segments_found > 0

\* the number of voiced entries of res
CountVoiced(res) == Cardinality({k \in 1..Len(res) : IsVoiced(res[k])})

\* C37: in every report a scan or a VAD scan has written, and in the loop
\* that builds it, files_with_voice is the number of entries so far that have
\* no error and segments_found > 0, carried-over entries included; an entry
\* without error has segments_found > 0 exactly when its blocks list is not
\* empty.
C37_VoiceCountMatches ==
  /\ IsReport(report) =>
       /\ report.files_with_voice = CountVoiced(report.results)
       /\ \A k \in 1..Len(report.results) :
            "error" \notin DOMAIN report.results[k] =>
              (report.results[k].segments_found > 0
                 <=> report.results[k].blocks # <<>>)
  /\ (op \in {"scan", "vad_scan"} /\ InRun) =>
       files_with_voice = CountVoiced(results)

\* C37 (witness): a run with skip_existing has written a report of two
\* voiced files, one entry carried over and one freshly scanned
C37_Witness ==
  /\ op \in {"scan", "vad_scan"}
  /\ pc = "done"
  /\ skip_existing
  /\ Len(scanned) = 1
  /\ ~scanned[1].outcome.raised
  /\ Len(report.results) = 2
  /\ report.files_with_voice = 2
  /\ CountVoiced(report.results) = 2

\* the number of entries of res for file f
EntriesFor(res, f) == Cardinality({k \in 1..Len(res) : res[k].file = f})

\* C38: every report on disk has total_files equal to the length of its
\* results and no file twice; the report a scan or a VAD scan has just
\* written has exactly one entry for each discovered file, whether it was
\* skipped, voiced, silent or failed, and no entry for any other file.
C38_OneEntryPerFile ==
  /\ IsReport(report) =>
       /\ report.total_files = Len(report.results)
       /\ \A k \in 1..Len(report.results) :
            EntriesFor(report.results, report.results[k].file) = 1
  /\ (op \in {"scan", "vad_scan"} /\ pc = "done") =>
       /\ \A k \in 1..Len(media_files) :
            EntriesFor(report.results, media_files[k]) = 1
       /\ \A k \in 1..Len(report.results) :
            report.results[k].file \in Range(media_files)
       /\ report.total_files = Len(media_files)

\* C38 (witness): a run with skip_existing has written a report over a prior
\* report of two files of which one is no longer discovered; the other file
\* failed in this run and has its error entry
C38_Witness ==
  /\ op \in {"scan", "vad_scan"}
  /\ pc = "done"
  /\ skip_existing
  /\ IsReport(prior)
  /\ Len(prior.results) = 2
  /\ Len(media_files) = 1
  /\ Len(scanned) = 1
  /\ scanned[1].outcome.raised
  /\ Len(report.results) = 1
  /\ "error" \in DOMAIN report.results[1]

\* C39: a step of the server loop that handles anything but a scan or a
\* transcribe command (ping, vad_scan, semantic_search, analyze,
\* detect_meetings, exit, an unknown action, a malformed line, the end of
\* input) leaves current_model and current_model_name as they were and
\* constructs no model; a step of the loop that changes either of them
\* handles a scan or a transcribe.
C39_OnlyScanAndTranscribeSwitch ==
  [][spc = "ready" =>
       /\ ~(cmd'.kind = "command" /\ cmd'.action \in {"scan", "transcribe"}) =>
            /\ current_model' = current_model
            /\ current_model_name' = current_model_name
            /\ constructed' = <<>>
       /\ (current_model' # current_model
             \/ current_model_name' # current_model_name) =>
            /\ cmd'.kind = "command"
            /\ cmd'.action \in {"scan", "transcribe"}]_vars

\* C39 (witness): a vad_scan has written its report in a server that holds a
\* model other than the start-up one, and holds it still
C39_Witness ==
  /\ cmd.kind = "command"
  /\ cmd.action = "vad_scan"
  /\ ~cmd.raised
  /\ IsReport(report)
  /\ report.scan_model = "silero-vad"
  /\ prev_model.name = "large-v1"
  /\ current_model_name = "large-v1"
  /\ current_model = prev_model.id
  /\ current_model # scanner_model

\* C40: every call of _load_vlm that has returned gave either a model
\* together with its processor or (None, None), whatever the earlier calls
\* did; a caller that goes on to read frames holds a processor.
C40_ModelWithProcessor ==
  \A k \in 1..Len(vlm_calls) :
    ~vlm_calls[k].returned.raised =>
      /\ (vlm_calls[k].returned.model = "None"
            <=> vlm_calls[k].returned.processor = "None")
      /\ vlm_calls[k].proceeds => vlm_calls[k].returned.processor # "None"

====
